---- MODULE Spec2Model ----
(***************************************************************************)
(* State-machine model of DeltaLakeRepository, the versioned record store  *)
(* of internal/storage (deltalake.go and its lakehouse feature file).      *)
(*                                                                         *)
(* The repository object's fields are the variables; every exported method *)
(* is one action that runs under the table mutex, so one action is one     *)
(* whole call.  The file system under basePath is the variable files; a    *)
(* write (os.WriteFile) may fail, leaving the file untouched or truncated. *)
(* The calls that take no lock, and Compact beside them, are modelled step  *)
(* by step, as are the methods of deltaStream, the pub/sub channel.         *)
(***************************************************************************)
EXTENDS Integers, Sequences, FiniteSets, TLC

\* ---------------------------------------------------------------- bounds
MaxTx   == 2   \* transaction objects ever begun under Spec
MaxOps  == 1   \* operations buffered over all transactions under Spec
MaxFail == 1   \* failed file writes in one run

\* the bounds of SpecRules
RulesTx  == 2
RulesOps == 2

\* the bounds of SpecLake
LakeVersion == 3   \* version-creating calls stop at this version id
LakeTx      == 2
LakeOps     == 2

\* the bounds of SpecSchema
SchemaVersion == 3
SchemaTx      == 1
SchemaOps     == 1

\* the bounds of SpecCompat
CompatVersion == 3

\* the bounds of SpecAlias
AliasVersion == 2

\* the bounds of SpecValidate
MaxChecked == 2   \* records passed to one ValidateConstraints call

\* the bounds of SpecQuery
QueryTx  == 1
QueryOps == 2

\* the bounds of SpecPage
PageTx    == 1
PageOps   == 2
MaxOffset == 3   \* the greatest offset and limit a caller passes

\* the bounds of SpecRace
RaceVersion == 3
RaceTx      == 1
RaceOps     == 1

\* the bounds of SpecTime
TimeTx   == 3
TimeOps  == 1
MaxClock == 1   \* the clock stops advancing here

\* the bounds of SpecStream
StreamBuffer == 1   \* config.BufferSize, the capacity of the channel
MaxEvents    == 2   \* events passed to one Publish call
MaxSent      == 3   \* Publish calls start while fewer events were sent
MaxSubscribers == 1 \* successful Subscribe calls

\* the bounds of SpecStore
StoreVersion == 2
StoreTx      == 1
StoreOps     == 1

\* the batch inserter beside Close: InsertBatchWithOptions calls that begin a
\* transaction, and the longest slice a call is passed
BatchTx  == 1
MaxBatch == 2

\* the in-memory engine: the records ever inserted, and the versions of the
\* versioned engine run beside it
MaxInserted   == 3
EngineVersion == 3

\* the commit of one transaction on top of another: transactions and the
\* operations buffered in them
ApplyTx  == 2
ApplyOps == 3

\* transactions open at the same time: transactions and the operations
\* buffered in them
SharedTx  == 2
SharedOps == 2

\* the rewrites of a table that holds records: versions, transactions and the
\* operations buffered in them
RewriteVersion == 3
RewriteTx      == 1
RewriteOps     == 1

\* the bounds of SpecUnlocked
UnlockedTx  == 1
UnlockedOps == 2

\* the bounds of SpecReaders
ReadersTx  == 1
ReadersOps == 1

\* ---------------------------------------------------------------- state
VARIABLES
    currentVersion,   \* d.currentVersion
    currentSchema,    \* *d.currentSchema
    metadata,         \* *d.metadata (CurrentVersion, RecordCount)
    versions,         \* d.versions: version id -> Version
    transactions,     \* d.transactions: transaction id -> transaction object
    constraints,      \* d.constraints
    txs,              \* the deltaTransaction objects ever created, by handle
    files,            \* data files under basePath: file name -> content
    now,              \* the wall clock (time.Now)
    nFail,            \* failed writes so far
    commits,          \* CommitTransaction calls that returned nil so far
    last,             \* the last call and its outcome
    metaFile,         \* what _delta_log/metadata.json holds
    changeLog,        \* d.changeLog
    result,           \* what the last read call returned
    inflight,         \* the Compact call that holds the table mutex, if one does
    stream,           \* one deltaStream object
    pubs,             \* the goroutines that call Publish on it
    caller            \* what the callers of the schema registry hold

vars == <<currentVersion, currentSchema, metadata, versions, transactions,
          constraints, txs, files, now, nFail, commits, last, metaFile,
          changeLog, result, inflight, stream, pubs, caller>>

\* what no method of the transaction manager, the version log, the schema
\* registry or the constraint engine assigns
others == <<changeLog, result, inflight, stream, pubs>>

\* ---------------------------------------------------------------- values
Durations == {-5, 30}

\* the record ids a caller passes; 0 asks for the next free id
IDs == {0, 1}

Exercises == [ID : IDs, Duration : Durations]

NilPtr == [kind |-> "nil", val |-> 0]

\* &d.currentVersion: a pointer to the repository's own field
FieldPtr == [kind |-> "field", val |-> 0]

\* *p for a non-nil *int64 while d.currentVersion is cur
Deref(p, cur) == IF p.kind = "field" THEN cur ELSE p.val

InitFields ==
    << [Name |-> "id",          Type |-> "int",       Nullable |-> FALSE, HasDefault |-> FALSE],
       [Name |-> "name",        Type |-> "string",    Nullable |-> FALSE, HasDefault |-> FALSE],
       [Name |-> "type",        Type |-> "string",    Nullable |-> FALSE, HasDefault |-> FALSE],
       [Name |-> "duration",    Type |-> "int",       Nullable |-> FALSE, HasDefault |-> FALSE],
       [Name |-> "calories",    Type |-> "int",       Nullable |-> FALSE, HasDefault |-> FALSE],
       [Name |-> "date",        Type |-> "timestamp", Nullable |-> FALSE, HasDefault |-> FALSE],
       [Name |-> "description", Type |-> "string",    Nullable |-> TRUE,  HasDefault |-> FALSE] >>

\* a nil map[string]string
NilMap == [kind |-> "nil", keys |-> {}]

\* a map[string]string with these keys
MapOf(keys) == [kind |-> "map", keys |-> keys]

InitSchema == [ID |-> 1, Version |-> 1, Fields |-> InitFields, Properties |-> NilMap]

InitVersion ==
    [ID |-> 0, Timestamp |-> 0, Description |-> "Table created", SchemaID |-> 1,
     RecordCount |-> 0, Operations |-> <<>>, ParentID |-> NilPtr]

\* tx is the handle of the call's transaction; for a call that has none, its
\* argument if it is a number, else 0
NoCall == [op |-> "none", ok |-> TRUE, tx |-> 0, err |-> ""]

Call(op, ok, tx, err) == [op |-> op, ok |-> ok, tx |-> tx, err |-> err]

\* ---------------------------------------------------------------- files
\* fmt.Sprintf("part-%05d-%05d.json", version, version)
PartFile(v) == <<"part", v, v>>

\* fmt.Sprintf("version_%d.json", version)
VersionFile(v) == <<"version", v>>

Valid(recs) == [valid |-> TRUE, recs |-> recs]

Truncated == [valid |-> FALSE, recs |-> {}]

IOOutcomes == {"ok", "untouched", "truncated"}

\* os.WriteFile(name, data): the files afterwards
WriteFile(fs, name, recs, io) ==
    CASE io = "ok"        -> [n \in DOMAIN fs \cup {name} |-> IF n = name THEN Valid(recs) ELSE fs[n]]
      [] io = "truncated" -> [n \in DOMAIN fs \cup {name} |-> IF n = name THEN Truncated ELSE fs[n]]
      [] OTHER            -> fs

saveVersionData(fs, version, exercises, io) == WriteFile(fs, PartFile(version), exercises, io)

getAllFromFiles(cur, fs) ==
    IF PartFile(cur) \notin DOMAIN fs THEN [err |-> FALSE, recs |-> {}]
    ELSE IF ~fs[PartFile(cur)].valid THEN [err |-> TRUE, recs |-> {}]
    ELSE [err |-> FALSE, recs |-> fs[PartFile(cur)].recs]

GetAll == getAllFromFiles(currentVersion, files)

\* GetByID: the record with this id in the current snapshot, if there is one
findByID(read, id) ==
    IF read.err THEN [err |-> TRUE, found |-> FALSE, recs |-> {}]
    ELSE [err |-> FALSE, found |-> \E e \in read.recs : e.ID = id,
          recs |-> {e \in read.recs : e.ID = id}]

GetByID(id) == findByID(GetAll, id)

\* GetByVersion: an error for a version not in d.versions, else what
\* version_<v>.json holds, an error when it cannot be read
GetByVersion(v) ==
    IF v \notin DOMAIN versions THEN [err |-> TRUE, recs |-> {}]
    ELSE IF VersionFile(v) \notin DOMAIN files THEN [err |-> TRUE, recs |-> {}]
    ELSE IF ~files[VersionFile(v)].valid THEN [err |-> TRUE, recs |-> {}]
    ELSE [err |-> FALSE, recs |-> files[VersionFile(v)].recs]

\* ---------------------------------------------------------------- maps
MapPut(m, k, v) == [x \in DOMAIN m \cup {k} |-> IF x = k THEN v ELSE m[x]]

MapDel(m, k) == [x \in DOMAIN m \ {k} |-> m[x]]

Max(S) == CHOOSE x \in S : \A y \in S : y <= x

Min(S) == CHOOSE x \in S : \A y \in S : x <= y

Range(f) == {f[x] : x \in DOMAIN f}

\* ---------------------------------------------------------------- I/O
Failed(io) == io # "ok"

\* saveMetadata: the metadata file is rewritten whole or not at all
MetaOutcomes == {"ok", "untouched"}

\* a pointer to a value of its own, as json.Unmarshal allocates one
ValPtr(v) == [kind |-> "val", val |-> v]

\* json.Marshal then json.Unmarshal of a number held in an interface{}
jsonNumber(n) == [type |-> "float64", val |-> n.val]

\* json.Marshal then json.Unmarshal of a Version: a non-nil ParentID is written as
\* the number it points to at that moment, the numbers of Details come back as
\* float64
jsonVersion(v, cur) ==
    [v EXCEPT !.ParentID = IF @.kind = "nil" THEN NilPtr ELSE ValPtr(Deref(@, cur)),
              !.Operations = [i \in 1..Len(@) |-> [@[i] EXCEPT !.record_id = jsonNumber(@)]]]

\* json.Marshal then json.Unmarshal of a Schema: Properties is "omitempty", an
\* empty map is left out and comes back nil
jsonSchema(schema) ==
    [schema EXCEPT !.Properties = IF @.keys = {} THEN NilMap ELSE @]

\* the struct saveMetadata marshals, as loadMetadata will unmarshal it
metaContent(schema, meta, vers, cur) ==
    [Schema |-> jsonSchema(schema), Metadata |-> meta,
     Versions |-> [v \in DOMAIN vers |-> jsonVersion(vers[v], cur)]]

\* saveMetadata: metadata.json afterwards
saveMetadata(mf, schema, meta, vers, cur, mio) ==
    IF mio = "ok" THEN metaContent(schema, meta, vers, cur) ELSE mf

\* ---------------------------------------------------------------- transactions
\* a number held in an interface{}: its dynamic type and its value
GoInt(n) == [type |-> "int", val |-> n]

\* Details: map[string]interface{}{"operation": ..., "record_id": ...}
Operation(type, operation, recordID) ==
    [Type |-> type, operation |-> operation, record_id |-> GoInt(recordID)]

\* fmt.Sprintf("tx_%d_%d", time.Now().UnixNano(), len(d.transactions))
TxID(clock, trans) == <<clock, Cardinality(DOMAIN trans)>>

\* a transaction born with a conflict on its list
NewTransaction_conflicting(id, readVersion) ==
    [id |-> id, isActive |-> TRUE, readVersion |-> readVersion,
     operations |-> <<>>, conflicts |-> <<"conflict">>,
     pendingWrites |-> <<>>, pendingDeletes |-> <<>>]

NewTransaction(id, readVersion) ==
    [id |-> id, isActive |-> TRUE, readVersion |-> readVersion,
     operations |-> <<>>, conflicts |-> <<>>,
     pendingWrites |-> <<>>, pendingDeletes |-> <<>>]

\* pending operations buffered so far, over all transaction objects
TotalOps == LET RECURSIVE Sum(_)
                Sum(h) == IF h = 0 THEN 0 ELSE Len(txs[h].operations) + Sum(h - 1)
            IN Sum(Len(txs))

BeginTransaction ==
    /\ LET txID == TxID(now, transactions)
           h    == Len(txs) + 1
       IN /\ txs' = Append(txs, NewTransaction(txID, currentVersion))
          /\ transactions' = MapPut(transactions, txID, h)
          /\ last' = Call("begin", TRUE, h, "")
    /\ UNCHANGED <<others, caller, metaFile, commits, currentVersion, currentSchema, metadata, versions, constraints,
                   files, now, nFail>>

\* the guard left out: a terminal transaction goes on buffering
AcceptsOperations_unguarded(t) == TRUE

\* the guard of deltaTransaction.Insert / Update / Delete
AcceptsOperations(t) == t.isActive

\* the body of deltaTransaction.Insert / Update after the guard
appendWrite(t, exercise, operation) ==
    [t EXCEPT !.pendingWrites = Append(@, exercise),
              !.operations = Append(@, Operation("write", operation, exercise.ID))]

\* the body of deltaTransaction.Delete after the guard
appendDelete(t, id) ==
    [t EXCEPT !.pendingDeletes = Append(@, id),
              !.operations = Append(@, Operation("delete", "delete", id))]

TxWrite(h, exercise, operation) ==
    /\ IF ~AcceptsOperations(txs[h])
       THEN /\ txs' = txs
            /\ last' = Call(operation, FALSE, h, "transaction is not active")
       ELSE /\ txs' = [txs EXCEPT ![h] = appendWrite(@, exercise, operation)]
            /\ last' = Call(operation, TRUE, h, "")
    /\ UNCHANGED <<others, caller, metaFile, commits, currentVersion, currentSchema, metadata, versions, transactions,
                   constraints, files, now, nFail>>

TxInsert(h, exercise) == TxWrite(h, exercise, "insert")

TxUpdate(h, exercise) == TxWrite(h, exercise, "update")

TxDelete(h, id) ==
    /\ IF ~AcceptsOperations(txs[h])
       THEN /\ txs' = txs
            /\ last' = Call("delete", FALSE, h, "transaction is not active")
       ELSE /\ txs' = [txs EXCEPT ![h] = appendDelete(@, id)]
            /\ last' = Call("delete", TRUE, h, "")
    /\ UNCHANGED <<others, caller, metaFile, commits, currentVersion, currentSchema, metadata, versions, transactions,
                   constraints, files, now, nFail>>

\* the buffers cleared but the transaction left active
rolledBack_stillActive(t) ==
    [t EXCEPT !.pendingWrites = <<>>, !.pendingDeletes = <<>>]

\* rollbackTransactionInternal after its guard: the transaction object afterwards
rolledBack(t) ==
    [t EXCEPT !.pendingWrites = <<>>, !.pendingDeletes = <<>>, !.isActive = FALSE]

RollbackTransaction(h) ==
    /\ IF ~txs[h].isActive
       THEN /\ UNCHANGED <<others, caller, metaFile, commits, txs, transactions>>
            /\ last' = Call("rollback", FALSE, h, "transaction is not active")
       ELSE /\ txs' = [txs EXCEPT ![h] = rolledBack(@)]
            /\ transactions' = MapDel(transactions, txs[h].id)
            /\ last' = Call("rollback", TRUE, h, "")
    /\ UNCHANGED <<others, caller, metaFile, commits, currentVersion, currentSchema, metadata, versions, constraints,
                   files, now, nFail>>

\* ---------------------------------------------------------------- commit
\* the greatest id in use handed out again
getNextID_taken(exercises) == Max({e.ID : e \in exercises} \cup {0})

\* getNextID: one more than the greatest id in the slice read from the file
getNextID(exercises) == Max({e.ID : e \in exercises} \cup {0}) + 1

\* exerciseMap after the "Apply deletes" loops
mapOf(exercises) == [i \in {e.ID : e \in exercises} |-> CHOOSE e \in exercises : e.ID = i]

RECURSIVE applyDeletes(_, _)
applyDeletes(m, deletes) ==
    IF deletes = <<>> THEN m
    ELSE applyDeletes(MapDel(m, Head(deletes)), Tail(deletes))

\* nextID++ left out: every write with id 0 gets the same id
RECURSIVE applyWrites_sameID(_, _, _)
applyWrites_sameID(m, writes, nextID) ==
    IF writes = <<>> THEN m
    ELSE LET e == Head(writes)
         IN IF e.ID = 0
            THEN applyWrites_sameID(MapPut(m, nextID, [e EXCEPT !.ID = nextID]), Tail(writes), nextID)
            ELSE applyWrites_sameID(MapPut(m, e.ID, e), Tail(writes), nextID)

\* the "Apply inserts and updates" loop
RECURSIVE applyWrites(_, _, _)
applyWrites(m, writes, nextID) ==
    IF writes = <<>> THEN m
    ELSE LET e == Head(writes)
         IN IF e.ID = 0
            THEN applyWrites(MapPut(m, nextID, [e EXCEPT !.ID = nextID]), Tail(writes), nextID + 1)
            ELSE applyWrites(MapPut(m, e.ID, e), Tail(writes), nextID)

\* newExercises of applyTransactionChanges, from the snapshot it read
newExercises(exercises, t) ==
    Range(applyWrites(applyDeletes(mapOf(exercises), t.pendingDeletes),
                      t.pendingWrites, getNextID(exercises)))

\* the increment left out: the commit overwrites the current Version
committedVersionID_stale(cur) == cur

\* the id CommitTransaction gives the version it creates (d.currentVersion++)
committedVersionID(cur) == cur + 1

\* the Version literal of CommitTransaction
commitVersion(id, t, schemaID, clock) ==
    [ID |-> id, Timestamp |-> clock, Description |-> "Transaction committed",
     SchemaID |-> schemaID, RecordCount |-> 0, Operations |-> t.operations,
     ParentID |-> NilPtr]

\* CommitTransaction between d.mutex.Lock and the return, whoever calls it, on
\* the transaction objects ts and the map trans that d.transactions is by then
CommitOn(ts, trans, h, io, mio) ==
    LET t    == ts[h]
        read == getAllFromFiles(currentVersion, files)
        recs == newExercises(read.recs, t)
        id   == committedVersionID(currentVersion)
    IN
    IF ~t.isActive
    THEN /\ last' = Call("commit", FALSE, h, "transaction is not active")
         /\ UNCHANGED <<others, metaFile, commits, currentVersion, currentSchema, metadata, versions,
                        constraints, files, now, nFail>>
         /\ txs' = ts /\ transactions' = trans
    ELSE IF Len(t.conflicts) > 0
    THEN /\ last' = Call("commit", FALSE, h, "transaction has conflicts")
         /\ UNCHANGED <<others, metaFile, commits, currentVersion, currentSchema, metadata, versions,
                        constraints, files, now, nFail>>
         /\ txs' = ts /\ transactions' = trans
    ELSE IF read.err
    THEN /\ last' = Call("commit", FALSE, h, "failed to read current data")
         /\ UNCHANGED <<others, metaFile, commits, currentVersion, currentSchema, metadata, versions,
                        constraints, files, now, nFail>>
         /\ txs' = ts /\ transactions' = trans
    ELSE /\ files' = saveVersionData(files, currentVersion + 1, recs, io)
         /\ IF Failed(io)
            THEN /\ nFail' = nFail + 1
                 /\ last' = Call("commit", FALSE, h, "failed to save version data")
                 /\ UNCHANGED <<others, metaFile, commits, currentVersion, currentSchema, metadata, versions,
                                constraints, now>>
                 /\ txs' = ts /\ transactions' = trans
            ELSE /\ nFail' = IF Failed(mio) THEN nFail + 1 ELSE nFail
                 /\ metadata' = [metadata EXCEPT !.RecordCount = Cardinality(recs)]
                 /\ txs' = [ts EXCEPT ![h].isActive = FALSE]
                 /\ transactions' = MapDel(trans, t.id)
                 /\ currentVersion' = id
                 /\ versions' = MapPut(versions, id, commitVersion(id, t, currentSchema.ID, now))
                 /\ last' = IF Failed(mio)
                            THEN Call("commit", FALSE, h, "failed to save metadata")
                            ELSE Call("commit", TRUE, h, "")
                 /\ commits' = IF Failed(mio) THEN commits ELSE commits + 1
                 /\ metaFile' = saveMetadata(metaFile, currentSchema, metadata', versions', currentVersion', mio)
                 /\ UNCHANGED <<others, currentSchema, constraints, now>>

\* CommitTransaction, called by a caller of the table
CommitTransaction(h, io, mio) ==
    CommitOn(txs, transactions, h, io, mio) /\ UNCHANGED caller

\* ---------------------------------------------------------------- versions
\* the Version literal of CreateVersion; ParentID is &d.currentVersion
createdVersion(id, n, schemaID, clock) ==
    [ID |-> id, Timestamp |-> clock, Description |-> "checkpoint",
     SchemaID |-> schemaID, RecordCount |-> n, Operations |-> <<>>,
     ParentID |-> FieldPtr]

CreateVersion(io, mio) ==
    LET read == getAllFromFiles(currentVersion, files)
        id   == currentVersion + 1
    IN
    IF read.err
    THEN /\ last' = Call("createVersion", FALSE, 0, "failed to get current data")
         /\ UNCHANGED <<others, caller, metaFile, commits, currentVersion, currentSchema, metadata, versions, transactions,
                        constraints, txs, files, now, nFail>>
    ELSE /\ files' = saveVersionData(files, id, read.recs, io)
         /\ IF Failed(io)
            THEN /\ nFail' = nFail + 1
                 /\ last' = Call("createVersion", FALSE, 0, "failed to save version data")
                 /\ UNCHANGED <<others, caller, metaFile, commits, currentVersion, currentSchema, metadata, versions,
                                transactions, constraints, txs, now>>
            ELSE /\ nFail' = IF Failed(mio) THEN nFail + 1 ELSE nFail
                 /\ versions' = MapPut(versions, id,
                        createdVersion(id, Cardinality(read.recs), currentSchema.ID, now))
                 /\ currentVersion' = id
                 /\ metadata' = [metadata EXCEPT !.CurrentVersion = id]
                 /\ last' = IF Failed(mio)
                            THEN Call("createVersion", FALSE, 0, "failed to save metadata")
                            ELSE Call("createVersion", TRUE, 0, "")
                 /\ metaFile' = saveMetadata(metaFile, currentSchema, metadata', versions', currentVersion', mio)
                 /\ UNCHANGED <<others, caller, commits, currentSchema, transactions, constraints, txs, now>>

\* every record dropped by the rewrite
rewritten_none(exercises) == {}

\* the records Compact and OptimizeTable write: the ones they read, as they are
rewritten(exercises) == exercises

\* Compact and OptimizeTable: d.currentVersion++ comes before the data file is
\* written, and neither call stores a Version in d.versions
Rewrite(op, io, mio) ==
    LET read == getAllFromFiles(currentVersion, files)
        id   == currentVersion + 1
    IN
    IF read.err
    THEN /\ last' = Call(op, FALSE, 0, "failed to read current data")
         /\ UNCHANGED <<others, caller, metaFile, commits, currentVersion, currentSchema, metadata, versions, transactions,
                        constraints, txs, files, now, nFail>>
    ELSE /\ currentVersion' = id
         /\ files' = saveVersionData(files, id, rewritten(read.recs), io)
         /\ IF Failed(io)
            THEN /\ nFail' = nFail + 1
                 /\ last' = Call(op, FALSE, 0, "failed to save data")
                 /\ UNCHANGED <<others, caller, metaFile, commits, currentSchema, metadata, versions, transactions,
                                constraints, txs, now>>
            ELSE /\ nFail' = IF Failed(mio) THEN nFail + 1 ELSE nFail
                 /\ metadata' = [metadata EXCEPT !.CurrentVersion = id]
                 /\ last' = IF Failed(mio)
                            THEN Call(op, FALSE, 0, "failed to save metadata")
                            ELSE Call(op, TRUE, 0, "")
                 /\ metaFile' = saveMetadata(metaFile, currentSchema, metadata', versions, currentVersion', mio)
                 /\ UNCHANGED <<others, caller, commits, currentSchema, versions, transactions, constraints,
                                txs, now>>

Compact(io, mio) == Rewrite("compact", io, mio)

OptimizeTable(io, mio) == Rewrite("optimize", io, mio)

\* GetTableMetadata: a copy of *d.metadata, taken under the read lock
GetTableMetadata == metadata

\* ---------------------------------------------------------------- schema
Intensity(nullable) ==
    [Name |-> "intensity", Type |-> "string", Nullable |-> nullable, HasDefault |-> FALSE]

\* the schemas a caller passes to EvolveSchema: the initial fields plus a nullable
\* field, and plus a non-nullable field without default
NewSchemas ==
    { [ID |-> 0, Version |-> 0, Fields |-> Append(InitFields, Intensity(n)),
       Properties |-> NilMap] : n \in BOOLEAN }

\* the field types the offered schemas use, of FieldType's constants
FieldTypes == {"int", "float", "string", "date", "timestamp"}

\* the fields a caller offers: "duration", a field of the initial schema, and
\* "intensity", a field new to it
OfferedFields ==
    [Name : {"duration", "intensity"}, Type : FieldTypes, Nullable : BOOLEAN,
     HasDefault : BOOLEAN]

\* the schemas a caller offers to ValidateSchemaCompatibility and EvolveSchema: one
\* of these fields, or a "duration" without default followed by a string
\* "intensity"; every other field is dropped
OfferedSchemas ==
    { [ID |-> 0, Version |-> 0, Fields |-> fs, Properties |-> NilMap] :
        fs \in { <<f>> : f \in OfferedFields } \cup
               { <<f, Intensity(n)>> :
                     f \in {x \in OfferedFields : x.Name = "duration" /\ ~x.HasDefault},
                     n \in BOOLEAN } }

\* every change of type allowed
isTypeCompatible_any(oldType, newType) == TRUE

isTypeCompatible(oldType, newType) ==
    \/ oldType = newType
    \/ oldType = "int"   /\ newType \in {"float", "string"}
    \/ oldType = "float" /\ newType = "string"
    \/ oldType = "date"  /\ newType \in {"timestamp", "string"}

\* currentFields[name] after "currentFields[field.Name] = field" over the fields in
\* order: the last field of that name
FieldNamed(schema, name) ==
    LET i == Max({j \in 1..Len(schema.Fields) : schema.Fields[j].Name = name})
    IN schema.Fields[i]

HasField(schema, name) == \E i \in 1..Len(schema.Fields) : schema.Fields[i].Name = name

\* the check of a new field left out
schemaCompatible_lax(cur, new) ==
    \A i \in 1..Len(new.Fields) :
        LET nf == new.Fields[i]
        IN HasField(cur, nf.Name) =>
               /\ isTypeCompatible(FieldNamed(cur, nf.Name).Type, nf.Type)
               /\ ~(FieldNamed(cur, nf.Name).Nullable /\ ~nf.Nullable)

\* validateSchemaCompatibilityInternal returns nil
schemaCompatible(cur, new) ==
    \A i \in 1..Len(new.Fields) :
        LET nf == new.Fields[i]
        IN IF HasField(cur, nf.Name)
           THEN /\ isTypeCompatible(FieldNamed(cur, nf.Name).Type, nf.Type)
                /\ ~(FieldNamed(cur, nf.Name).Nullable /\ ~nf.Nullable)
           ELSE nf.Nullable \/ nf.HasDefault

\* GetCurrentSchema: a copy of *d.currentSchema with a slice of its own
GetCurrentSchema == currentSchema

\* the Version literal of EvolveSchema; ParentID is &d.currentVersion
evolvedVersion(id, schemaID, clock) ==
    [ID |-> id, Timestamp |-> clock, Description |-> "Schema evolved",
     SchemaID |-> schemaID, RecordCount |-> 0,
     Operations |-> <<Operation("schema", "schema", 0)>>, ParentID |-> FieldPtr]

EvolveSchema(newSchema, mio) ==
    IF ~schemaCompatible(currentSchema, newSchema)
    THEN /\ last' = Call("evolveSchema", FALSE, 0, "schema is not compatible")
         /\ UNCHANGED <<others, caller, metaFile, commits, currentVersion, currentSchema, metadata, versions, transactions,
                        constraints, txs, files, now, nFail>>
    ELSE LET id  == currentVersion + 1
             new == [newSchema EXCEPT !.ID = currentSchema.ID + 1,
                                      !.Version = currentSchema.Version + 1]
         IN /\ nFail' = IF Failed(mio) THEN nFail + 1 ELSE nFail
            /\ currentSchema' = new
            /\ currentVersion' = id
            /\ versions' = MapPut(versions, id, evolvedVersion(id, new.ID, now))
            /\ metadata' = [metadata EXCEPT !.CurrentVersion = id]
            /\ last' = IF Failed(mio)
                       THEN Call("evolveSchema", FALSE, 0, "failed to save metadata")
                       ELSE Call("evolveSchema", TRUE, 0, "")
            /\ metaFile' = saveMetadata(metaFile, currentSchema', metadata', versions', currentVersion', mio)
            /\ caller' = [caller EXCEPT !.aliased = TRUE, !.shares = FALSE]
            /\ UNCHANGED <<others, commits, transactions, constraints, txs, files, now>>

\* ValidateSchemaCompatibility: the check alone
ValidateSchemaCompatibility(newSchema) ==
    /\ last' = IF schemaCompatible(currentSchema, newSchema)
               THEN Call("validateSchema", TRUE, 0, "")
               ELSE Call("validateSchema", FALSE, 0, "schema is not compatible")
    /\ caller' = [caller EXCEPT !.passed = newSchema]
    /\ UNCHANGED <<others, metaFile, commits, currentVersion, currentSchema, metadata, versions,
                   transactions, constraints, txs, files, now, nFail>>

\* the schemas a caller builds with properties: the initial fields and a nullable
\* "intensity", with no Properties map, an empty one and one with an entry
PropertySchemas ==
    { [ID |-> 0, Version |-> 0, Fields |-> Append(InitFields, Intensity(TRUE)),
       Properties |-> m] : m \in {NilMap, MapOf({}), MapOf({"owner"})} }

\* a call of GetCurrentSchema: schemaCopy := *d.currentSchema copies the struct,
\* so the copy's Properties is the same map; Fields is copied into a new slice
ReadSchema ==
    /\ caller' = [caller EXCEPT !.copy = GetCurrentSchema,
                                !.shares = currentSchema.Properties.kind = "map"]
    /\ last' = Call("getCurrentSchema", TRUE, 0, "")
    /\ UNCHANGED <<others, metaFile, commits, currentVersion, currentSchema, metadata, versions,
                   transactions, constraints, txs, files, now, nFail>>

\* the caller assigns to an element of the Fields slice of the Schema it got from
\* GetCurrentSchema: schema.Fields[0].Nullable = !schema.Fields[0].Nullable
MutateFields ==
    /\ caller.copy.Fields # <<>>
    /\ caller' = [caller EXCEPT !.copy.Fields[1].Nullable = ~@]
    /\ last' = Call("mutateFields", TRUE, 0, "")
    /\ UNCHANGED <<others, metaFile, commits, currentVersion, currentSchema, metadata, versions,
                   transactions, constraints, txs, files, now, nFail>>

\* the caller writes to the Properties map of the Schema it got from
\* GetCurrentSchema: schema.Properties[key] = "..."; a nil map cannot be written
MutateProperties(key) ==
    /\ caller.copy.Properties.kind = "map"
    /\ caller' = [caller EXCEPT !.copy.Properties.keys = @ \cup {key}]
    /\ currentSchema' = IF caller.shares
                        THEN [currentSchema EXCEPT !.Properties.keys = @ \cup {key}]
                        ELSE currentSchema
    /\ last' = Call("mutateProperties", TRUE, 0, "")
    /\ UNCHANGED <<others, metaFile, commits, currentVersion, metadata, versions,
                   transactions, constraints, txs, files, now, nFail>>

\* the caller assigns to the Fields of the Schema object it passed to an
\* EvolveSchema that took it: d.currentSchema is that object
MutatePassed(fields) ==
    /\ caller.aliased
    /\ currentSchema' = [currentSchema EXCEPT !.Fields = fields]
    /\ last' = Call("mutatePassed", TRUE, 0, "")
    /\ UNCHANGED <<others, caller, metaFile, commits, currentVersion, metadata, versions,
                   transactions, constraints, txs, files, now, nFail>>

\* ---------------------------------------------------------------- constraints
\* {name:"positive_duration", type:"range", columns:["duration"]}
PositiveDuration ==
    [Name |-> "positive_duration", Type |-> "range", Columns |-> <<"duration">>,
     Expression |-> "", Enabled |-> FALSE]

NewConstraints == {PositiveDuration}

ConstraintNames == {c.Name : c \in NewConstraints}

\* the kinds of constraint a caller offers: a range on "duration", not-null on
\* "description" alone and beside "type", a check with the expression validateCheck
\* knows and with another, and a type validateConstraint does not dispatch
ConstraintKinds ==
    { [Type |-> "range",    Columns |-> <<"duration">>,            Expression |-> ""],
      [Type |-> "not_null", Columns |-> <<"description">>,         Expression |-> ""],
      [Type |-> "not_null", Columns |-> <<"type", "description">>, Expression |-> ""],
      [Type |-> "check",    Columns |-> <<>>,
       Expression |-> "type IN ('cardio', 'strength', 'flexibility')"],
      [Type |-> "check",    Columns |-> <<>>,                      Expression |-> "duration > 0"],
      [Type |-> "unique",   Columns |-> <<"id">>,                  Expression |-> ""] }

\* the constraints a caller offers to AddConstraint, under two names
OfferedConstraints ==
    { [Name |-> n, Type |-> k.Type, Columns |-> k.Columns, Expression |-> k.Expression,
       Enabled |-> b] :
        n \in {"positive_duration", "described"}, k \in ConstraintKinds, b \in BOOLEAN }

\* the check for a constraint of that name left out
HasConstraint_never(cs, name) == FALSE

HasConstraint(cs, name) == \E i \in 1..Len(cs) : cs[i].Name = name

AddConstraint(c, mio) ==
    IF HasConstraint(constraints, c.Name)
    THEN /\ last' = Call("addConstraint", FALSE, 0, "constraint already exists")
         /\ UNCHANGED <<others, caller, metaFile, commits, currentVersion, currentSchema, metadata, versions, transactions,
                        constraints, txs, files, now, nFail>>
    ELSE /\ nFail' = IF Failed(mio) THEN nFail + 1 ELSE nFail
         /\ constraints' = Append(constraints, [c EXCEPT !.Enabled = TRUE])
         /\ last' = IF Failed(mio)
                    THEN Call("addConstraint", FALSE, 0, "failed to save metadata")
                    ELSE Call("addConstraint", TRUE, 0, "")
         /\ metaFile' = saveMetadata(metaFile, currentSchema, metadata, versions, currentVersion, mio)
         /\ UNCHANGED <<others, caller, commits, currentVersion, currentSchema, metadata, versions, transactions,
                        txs, files, now>>

\* d.constraints[i] = d.constraints[len-1]; d.constraints = d.constraints[:len-1]
removeAt(cs, i) ==
    LET moved == [cs EXCEPT ![i] = cs[Len(cs)]]
    IN SubSeq(moved, 1, Len(cs) - 1)

RemoveConstraint(name, mio) ==
    IF ~HasConstraint(constraints, name)
    THEN /\ last' = Call("removeConstraint", FALSE, 0, "constraint not found")
         /\ UNCHANGED <<others, caller, metaFile, commits, currentVersion, currentSchema, metadata, versions, transactions,
                        constraints, txs, files, now, nFail>>
    ELSE LET i == Min({j \in 1..Len(constraints) : constraints[j].Name = name})
         IN /\ nFail' = IF Failed(mio) THEN nFail + 1 ELSE nFail
            /\ constraints' = removeAt(constraints, i)
            /\ last' = IF Failed(mio)
                       THEN Call("removeConstraint", FALSE, 0, "failed to save metadata")
                       ELSE Call("removeConstraint", TRUE, 0, "")
            /\ metaFile' = saveMetadata(metaFile, currentSchema, metadata, versions, currentVersion, mio)
            /\ UNCHANGED <<others, caller, commits, currentVersion, currentSchema, metadata, versions, transactions,
                           txs, files, now>>

\* validateRange returns an error for this record
rangeViolated(c, e) ==
    \E i \in 1..Len(c.Columns) :
        c.Columns[i] = "duration" /\ (e.Duration < 0 \/ e.Duration > 1440)

\* validateNotNull returns an error for this record: a blank description counts
\* only when it is the constraint's one column
notNullViolated(c, e) ==
    \E i \in 1..Len(c.Columns) :
        \/ c.Columns[i] = "type" /\ e.Type = ""
        \/ c.Columns[i] = "description" /\ e.Description = "" /\ Len(c.Columns) = 1

\* validateCheck returns an error for this record
checkViolated(c, e) ==
    /\ c.Expression = "type IN ('cardio', 'strength', 'flexibility')"
    /\ e.Type \notin {"cardio", "strength", "flexibility"}

\* validateConstraint returns an error for this record; for a type it does not
\* dispatch it returns "unsupported constraint type"
constraintViolated(c, e) ==
    CASE c.Type = "range"    -> rangeViolated(c, e)
      [] c.Type = "not_null" -> notNullViolated(c, e)
      [] c.Type = "check"    -> checkViolated(c, e)
      [] OTHER               -> TRUE

\* ValidateConstraints: 0 when it returns nil, else the position in d.constraints
\* of the constraint its error names
ValidateConstraints(cs, exercises) ==
    LET bad == {i \in 1..Len(cs) :
                    cs[i].Enabled /\ \E j \in 1..Len(exercises) :
                                         constraintViolated(cs[i], exercises[j])}
    IN IF bad = {} THEN 0 ELSE Min(bad)

\* the records a caller passes to ValidateConstraints, with the columns the
\* offered constraints name
CheckedExercises == [ID : {1}, Duration : Durations, Type : {"", "cardio"}, Description : {"", "x"}]

\* the slices of at most MaxChecked records
CheckedBatches ==
    LET RECURSIVE Upto(_)
        Upto(n) == IF n = 0 THEN {<<>>}
                   ELSE Upto(n - 1) \cup
                        {Append(b, e) : b \in {x \in Upto(n - 1) : Len(x) = n - 1},
                                        e \in CheckedExercises}
    IN Upto(MaxChecked)

\* a call of ValidateConstraints; the error names the constraint
CallValidateConstraints(exercises) ==
    LET i == ValidateConstraints(constraints, exercises)
    IN /\ last' = IF i = 0 THEN Call("validateConstraints", TRUE, 0, "")
                  ELSE Call("validateConstraints", FALSE, 0, constraints[i].Name)
       /\ caller' = [caller EXCEPT !.checked = exercises]
       /\ UNCHANGED <<others, metaFile, commits, currentVersion, currentSchema, metadata, versions,
                      transactions, constraints, txs, files, now, nFail>>

\* ---------------------------------------------------------------- queries
\* a string held in an interface{}; a string is the sequence of its characters
GoString(str) == [type |-> "string", str |-> str]

\* a == b for two interface{} values: the same dynamic type and the same value
GoEqual(a, b) ==
    /\ a.type = b.type
    /\ IF a.type = "string" THEN a.str = b.str ELSE a.val = b.val

\* the records the callers of the query engine insert: a short one of type "r"
\* and a longer one of type "run"
QueryExercises ==
    { [ID |-> 0, Duration |-> 30, Type |-> <<"r">>],
      [ID |-> 0, Duration |-> 45, Type |-> <<"r", "u", "n">>] }

\* the fields of the first switch of matchesCondition that the records here carry
KnownFields == {"id", "type", "duration"}

\* fieldValue after the first switch of matchesCondition
fieldValue(exercise, field) ==
    CASE field = "id"       -> GoInt(exercise.ID)
      [] field = "type"     -> GoString(exercise.Type)
      [] field = "duration" -> GoInt(exercise.Duration)

\* len(str) >= len(pattern) && str[:len(pattern)] == pattern
contains(str, pattern) ==
    Len(str) >= Len(pattern) /\ SubSeq(str, 1, Len(pattern)) = pattern

matchesCondition(exercise, condition) ==
    IF condition.Field \notin KnownFields THEN FALSE
    ELSE LET value == fieldValue(exercise, condition.Field)
         IN CASE condition.Operator = "eq" -> GoEqual(value, condition.Value)
              [] condition.Operator = "ne" -> ~GoEqual(value, condition.Value)
              [] condition.Operator = "gt" ->
                     /\ value.type = "int" /\ condition.Value.type = "int"
                     /\ value.val > condition.Value.val
              [] condition.Operator = "like" ->
                     /\ value.type = "string" /\ condition.Value.type = "string"
                     /\ contains(value.str, condition.Value.str)
              [] OTHER -> FALSE

\* one condition met is enough
matchesFilter_any(exercise, filter) ==
    \E i \in 1..Len(filter.Conditions) : matchesCondition(exercise, filter.Conditions[i])

matchesFilter(exercise, filter) ==
    \A i \in 1..Len(filter.Conditions) : matchesCondition(exercise, filter.Conditions[i])

\* the slices that hold each record of the set once
RECURSIVE Orderings(_)
Orderings(S) ==
    IF S = {} THEN {<<>>}
    ELSE UNION { {<<e>> \o o : o \in Orderings(S \ {e})} : e \in S }

\* the characters of fmt.Sprintf("%v", n) as numbers in the order of their bytes:
\* a digit is its value, "-" lies below the digits
RECURSIVE Sprint(_)
Sprint(n) ==
    IF n < 0 THEN <<-3>> \o Sprint(-n)
    ELSE IF n < 10 THEN <<n>>
    ELSE Sprint(n \div 10) \o <<n % 10>>

\* a < b for two strings
RECURSIVE StringLess(_, _)
StringLess(a, b) ==
    IF b = <<>> THEN FALSE
    ELSE IF a = <<>> THEN TRUE
    ELSE IF Head(a) # Head(b) THEN Head(a) < Head(b)
    ELSE StringLess(Tail(a), Tail(b))

\* the less function applySorting hands to sort.Slice, for the number fields; any
\* other field name here takes the default branch
sortLess(a, b, sortField) ==
    IF sortField.Field \notin {"id", "duration"} THEN FALSE
    ELSE LET left  == Sprint(IF sortField.Field = "id" THEN a.ID ELSE a.Duration)
             right == Sprint(IF sortField.Field = "id" THEN b.ID ELSE b.Duration)
         IN IF sortField.Order = "desc" THEN StringLess(right, left)
            ELSE StringLess(left, right)

\* applySorting: the slices it can return. sort.Slice is not stable, so records
\* that compare equal come out in any order
applySorting(exercises, sortFields) ==
    IF Len(sortFields) = 0 THEN {exercises}
    ELSE {o \in Orderings(Range(exercises)) :
              \A i, j \in 1..Len(o) : i < j => ~sortLess(o[j], o[i], sortFields[1])}

\* applyPagination: exercises[start:end] panics when start is negative or
\* beyond end
applyPagination(exercises, limit, offset) ==
    LET start == IF offset.kind = "nil" THEN 0 ELSE offset.val
        end   == IF limit.kind = "nil" THEN Len(exercises)
                 ELSE IF start + limit.val > Len(exercises) THEN Len(exercises)
                 ELSE start + limit.val
    IN IF start >= Len(exercises) THEN [panic |-> FALSE, page |-> <<>>]
       ELSE IF start < 0 \/ start > end THEN [panic |-> TRUE, page |-> <<>>]
       ELSE [panic |-> FALSE, page |-> SubSeq(exercises, start + 1, end)]

\* a Filter with nothing set
NoFilter == [Conditions |-> <<>>, SortBy |-> <<>>, Limit |-> NilPtr, Offset |-> NilPtr]

\* QueryWithFilter. The records come in the order they have in the snapshot
\* file, which is the order the map iteration of the commit gave them. In what
\* it returns, list is the slice and recs its records; scanned is the slice
\* applyPagination was handed
QueryWithFilter(filter) ==
    LET read == getAllFromFiles(currentVersion, files)
    IN /\ IF read.err
          THEN /\ result' = [err |-> TRUE, recs |-> {}, list |-> <<>>, scanned |-> <<>>]
               /\ last' = Call("queryWithFilter", FALSE, 0, "failed to read current data")
          ELSE \E exercises \in Orderings(read.recs) :
                   \E sorted \in applySorting(
                           SelectSeq(exercises, LAMBDA e : matchesFilter(e, filter)),
                           filter.SortBy) :
                       LET paged == applyPagination(sorted, filter.Limit, filter.Offset)
                       IN /\ result' = [err |-> paged.panic, recs |-> Range(paged.page),
                                        list |-> paged.page, scanned |-> sorted]
                          /\ last' = IF paged.panic
                                     THEN Call("queryWithFilter", FALSE, 0,
                                               "panic: slice bounds out of range")
                                     ELSE Call("queryWithFilter", TRUE, 0, "")
       /\ caller' = [caller EXCEPT !.filter = filter]
       /\ UNCHANGED <<changeLog, inflight, stream, pubs, metaFile, commits, currentVersion,
                      currentSchema, metadata, versions, transactions, constraints, txs,
                      files, now, nFail>>

\* ---------------------------------------------------------------- batches
\* BatchOptions{BatchSize, SkipErrors, ValidateFirst}; Timeout and ParallelJobs
\* are read by no statement that decides an outcome
BatchOptions(batchSize, skipErrors, validateFirst) ==
    [BatchSize |-> batchSize, SkipErrors |-> skipErrors, ValidateFirst |-> validateFirst]

\* &BatchResult{ProcessedCount: n}; of a BatchError Errors keeps the Index and
\* the id that Record renders
BatchResult(n) ==
    [ProcessedCount |-> n, SuccessCount |-> 0, ErrorCount |-> 0, Errors |-> <<>>,
     Version |-> 0]

\* Validator.Validate returns nil: the checks of the id and of the duration. The
\* older validator of the package rejects id 0 as well; the two agree on the
\* records with an id from 1 on
Validate(exercise) ==
    exercise.ID >= 0 /\ exercise.Duration > 0 /\ exercise.Duration <= 1440

\* validateBatch returns nil
validateBatch(exercises) == \A i \in 1..Len(exercises) : Validate(exercises[i])

\* options.BatchSize after "Set default options"
batchSize(options) == IF options.BatchSize = 0 THEN 1000 ELSE options.BatchSize

\* No InsertBatchWithOptions call is running. In a call that is, pc is "insert",
\* tx the handle BeginTransaction returned, i the number of elements handed to
\* tx.Insert so far; after its return result and err are what it returned
NoJob ==
    [pc |-> "idle", exercises |-> <<>>, options |-> BatchOptions(0, FALSE, FALSE),
     tx |-> 0, i |-> 0, result |-> BatchResult(0), err |-> ""]

\* InsertBatchWithOptions up to the return of BeginTransaction
InsertBatchBegin(exercises, options) ==
    LET job == [NoJob EXCEPT !.exercises = exercises, !.options = options,
                             !.result = BatchResult(Len(exercises))]
        h   == Len(txs) + 1
    IN /\ caller.job.pc = "idle"
       /\ IF options.ValidateFirst /\ ~validateBatch(exercises)
          THEN /\ caller' = [caller EXCEPT !.job = [job EXCEPT !.err = "batch validation failed"]]
               /\ last' = Call("insertBatch", FALSE, 0, "batch validation failed")
               /\ UNCHANGED <<txs, transactions>>
          ELSE /\ txs' = Append(txs, NewTransaction(TxID(now, transactions), currentVersion))
               /\ transactions' = MapPut(transactions, TxID(now, transactions), h)
               /\ caller' = [caller EXCEPT !.job = [job EXCEPT !.pc = "insert", !.tx = h]]
               /\ last' = Call("begin", TRUE, h, "")
       /\ UNCHANGED <<others, metaFile, commits, currentVersion, currentSchema, metadata,
                      versions, constraints, files, now, nFail>>

\* one turn of the loop of processBatch: tx.Insert of the next element. Index is
\* the position in the slice processBatch was passed. When the turn returns an
\* error and SkipErrors is off, the RollbackTransaction that follows finds the
\* transaction inactive, and the call returns
InsertBatchItem ==
    LET job      == caller.job
        h        == job.tx
        exercise == job.exercises[job.i + 1]
        index    == job.i % batchSize(job.options)
    IN /\ job.pc = "insert"
       /\ job.i < Len(job.exercises)
       /\ IF ~AcceptsOperations(txs[h])
          THEN /\ txs' = txs
               /\ caller' = [caller EXCEPT !.job =
                     [job EXCEPT !.i = @ + 1,
                                 !.result.ErrorCount = @ + 1,
                                 !.result.Errors = Append(@, [Index |-> index, Record |-> exercise.ID]),
                                 !.pc = IF job.options.SkipErrors THEN "insert" ELSE "idle",
                                 !.err = IF job.options.SkipErrors THEN "" ELSE "batch processing failed"]]
               /\ last' = IF job.options.SkipErrors
                          THEN Call("insert", FALSE, h, "transaction is not active")
                          ELSE Call("insertBatch", FALSE, h, "batch processing failed")
          ELSE /\ txs' = [txs EXCEPT ![h] = appendWrite(@, exercise, "insert")]
               /\ caller' = [caller EXCEPT !.job =
                     [job EXCEPT !.i = @ + 1, !.result.SuccessCount = @ + 1]]
               /\ last' = Call("insert", TRUE, h, "")
       /\ UNCHANGED <<others, metaFile, commits, currentVersion, currentSchema, metadata,
                      versions, transactions, constraints, files, now, nFail>>

\* InsertBatchWithOptions from CommitTransaction to its return
InsertBatchCommit(io, mio) ==
    LET job == caller.job
    IN /\ job.pc = "insert"
       /\ job.i = Len(job.exercises)
       /\ CommitOn(txs, transactions, job.tx, io, mio)
       /\ caller' = [caller EXCEPT !.job =
             [job EXCEPT !.pc = "idle",
                         !.err = IF last'.ok THEN "" ELSE "failed to commit transaction",
                         !.result.Version = IF last'.ok THEN currentVersion' ELSE @]]

\* ---------------------------------------------------------------- in memory
\* NewMemoryRepository()
NewMemoryRepository == [exercises |-> << >>, nextID |-> 1]

\* the record stored under the id it carries
memoryInsert_carried(m, exercise) ==
    [exercises |-> MapPut(m.exercises, exercise.ID, exercise), nextID |-> m.nextID + 1]

\* MemoryRepository.Insert, and one turn of the loop of InsertBatch
memoryInsert(m, exercise) ==
    [exercises |-> MapPut(m.exercises, m.nextID, [exercise EXCEPT !.ID = m.nextID]),
     nextID |-> m.nextID + 1]

\* the loop of MemoryRepository.InsertBatch
RECURSIVE memoryInsertBatch(_, _)
memoryInsertBatch(m, exercises) ==
    IF exercises = <<>> THEN m
    ELSE memoryInsertBatch(memoryInsert(m, Head(exercises)), Tail(exercises))

\* every id taken for a stored one
exists_always(m, id) == TRUE

\* _, exists := m.exercises[id]
exists(m, id) == id \in DOMAIN m.exercises

\* MemoryRepository.Update: the repository afterwards
memoryUpdate(m, exercise) ==
    IF ~exists(m, exercise.ID) THEN m
    ELSE [m EXCEPT !.exercises = MapPut(@, exercise.ID, exercise)]

\* MemoryRepository.Delete: the repository afterwards
memoryDelete(m, id) ==
    IF ~exists(m, id) THEN m
    ELSE [m EXCEPT !.exercises = MapDel(@, id)]

\* a call of an ExerciseRepository method and what it returned: the error, and
\* the records for a read
Request(op, exercises, id) == [op |-> op, exercises |-> exercises, id |-> id]

Answer(err, recs) == [err |-> err, recs |-> recs]

NoRequest == Request("none", <<>>, 0)

\* the variables of the versioned table that a call of the MemoryRepository
\* leaves alone
repository == <<others, metaFile, commits, currentVersion, currentSchema, metadata,
                versions, transactions, constraints, txs, files, now, nFail>>

\* the return of a MemoryRepository method that left the repository as m and
\* stored n records more
memoryReturns(m, n, request, answer) ==
    caller' = [caller EXCEPT !.memory = m, !.inserted = @ + n,
                             !.asked = request, !.answer = answer]

MemoryInsert(exercise) ==
    /\ memoryReturns(memoryInsert(caller.memory, exercise), 1,
                     Request("insert", <<exercise>>, 0), Answer(FALSE, {}))
    /\ last' = Call("memory.Insert", TRUE, 0, "")
    /\ UNCHANGED repository

MemoryInsertBatch(exercises) ==
    /\ memoryReturns(memoryInsertBatch(caller.memory, exercises), Len(exercises),
                     Request("insertBatch", exercises, 0), Answer(FALSE, {}))
    /\ last' = Call("memory.InsertBatch", TRUE, 0, "")
    /\ UNCHANGED repository

MemoryUpdate(exercise) ==
    /\ memoryReturns(memoryUpdate(caller.memory, exercise), 0,
                     Request("update", <<exercise>>, exercise.ID),
                     Answer(~exists(caller.memory, exercise.ID), {}))
    /\ last' = IF exists(caller.memory, exercise.ID)
               THEN Call("memory.Update", TRUE, 0, "")
               ELSE Call("memory.Update", FALSE, 0, "exercise not found")
    /\ UNCHANGED repository

MemoryDelete(id) ==
    /\ memoryReturns(memoryDelete(caller.memory, id), 0,
                     Request("delete", <<>>, id), Answer(~exists(caller.memory, id), {}))
    /\ last' = IF exists(caller.memory, id)
               THEN Call("memory.Delete", TRUE, 0, "")
               ELSE Call("memory.Delete", FALSE, 0, "exercise not found")
    /\ UNCHANGED repository

\* MemoryRepository.GetByID: nil, nil for an id that is not stored
memoryGetByID(m, id) ==
    Answer(FALSE, IF id \in DOMAIN m.exercises THEN {m.exercises[id]} ELSE {})

MemoryGetByID(id) ==
    /\ memoryReturns(caller.memory, 0, Request("getByID", <<>>, id),
                     memoryGetByID(caller.memory, id))
    /\ last' = Call("memory.GetByID", TRUE, 0, "")
    /\ UNCHANGED repository

\* MemoryRepository.GetAll
memoryGetAll(m) == Answer(FALSE, Range(m.exercises))

MemoryGetAll ==
    /\ memoryReturns(caller.memory, 0, Request("getAll", <<>>, 0), memoryGetAll(caller.memory))
    /\ last' = Call("memory.GetAll", TRUE, 0, "")
    /\ UNCHANGED repository

\* ---------------------------------------------------------------- two engines
\* DeltaLakeRepository.Insert, Update and Delete on a repository no other
\* goroutine uses: BeginTransaction, the one operation buffered in the
\* transaction t it returned, CommitTransaction
begun == NewTransaction(TxID(now, transactions), currentVersion)

commitOne(t, io, mio) ==
    CommitOn(Append(txs, t), MapPut(transactions, t.id, Len(txs) + 1), Len(txs) + 1, io, mio)

DeltaInsert(exercise, io, mio) == commitOne(appendWrite(begun, exercise, "insert"), io, mio)

DeltaUpdate(exercise, io, mio) == commitOne(appendWrite(begun, exercise, "update"), io, mio)

DeltaDelete(id, io, mio) == commitOne(appendDelete(begun, id), io, mio)

\* DeltaLakeRepository.GetByID and GetAll, given what they return
DeltaRead(op, read) ==
    /\ result' = [err |-> read.err, recs |-> read.recs]
    /\ last' = Call(op, ~read.err, 0, "")
    /\ UNCHANGED <<changeLog, inflight, stream, pubs, metaFile, commits, currentVersion,
                   currentSchema, metadata, versions, transactions, constraints, txs,
                   files, now, nFail>>

\* One call made on a MemoryRepository and on a DeltaLakeRepository
BothInsert(exercise) ==
    /\ DeltaInsert(exercise, "ok", "ok")
    /\ memoryReturns(memoryInsert(caller.memory, exercise), 1,
                     Request("insert", <<exercise>>, 0), Answer(FALSE, {}))

BothUpdate(exercise) ==
    /\ DeltaUpdate(exercise, "ok", "ok")
    /\ memoryReturns(memoryUpdate(caller.memory, exercise), 0,
                     Request("update", <<exercise>>, exercise.ID),
                     Answer(~exists(caller.memory, exercise.ID), {}))

BothDelete(id) ==
    /\ DeltaDelete(id, "ok", "ok")
    /\ memoryReturns(memoryDelete(caller.memory, id), 0,
                     Request("delete", <<>>, id), Answer(~exists(caller.memory, id), {}))

BothGetByID(id) ==
    /\ DeltaRead("getByID", GetByID(id))
    /\ memoryReturns(caller.memory, 0, Request("getByID", <<>>, id),
                     memoryGetByID(caller.memory, id))

BothGetAll ==
    /\ DeltaRead("getAll", GetAll)
    /\ memoryReturns(caller.memory, 0, Request("getAll", <<>>, 0), memoryGetAll(caller.memory))

\* ---------------------------------------------------------------- change feed
\* GetChangelog: the events of d.changeLog whose Version lies in the range
GetChangelog(log, fromVersion, toVersion) ==
    SelectSeq(log, LAMBDA change : change.Version >= fromVersion /\ change.Version <= toVersion)

\* ---------------------------------------------------------------- close, open
\* the transactions Close rolls back: the active ones among the values of
\* d.transactions
closedByClose(trans, ts) == {h \in Range(trans) : ts[h].isActive}

Close(mio) ==
    LET closing == closedByClose(transactions, txs)
    IN /\ txs' = [h \in DOMAIN txs |-> IF h \in closing THEN rolledBack(txs[h]) ELSE txs[h]]
       /\ transactions' = [i \in {j \in DOMAIN transactions : transactions[j] \notin closing} |->
                               transactions[i]]
       /\ metaFile' = saveMetadata(metaFile, currentSchema, metadata, versions, currentVersion, mio)
       /\ nFail' = IF Failed(mio) THEN nFail + 1 ELSE nFail
       /\ last' = IF Failed(mio)
                  THEN Call("close", FALSE, 0, "failed to save metadata")
                  ELSE Call("close", TRUE, 0, "")
       /\ UNCHANGED <<others, caller, commits, currentVersion, currentSchema, metadata, versions,
                      constraints, files, now>>

\* the greatest key of d.versions, -1 for none
maxVersion(vers) == Max(DOMAIN vers \cup {-1})

\* NewDeltaLakeRepository on a base path that holds metadata.json: a new
\* repository object filled by loadMetadata
Open ==
    /\ currentSchema' = metaFile.Schema
    /\ metadata' = metaFile.Metadata
    /\ versions' = metaFile.Versions
    /\ currentVersion' = maxVersion(metaFile.Versions)
    /\ transactions' = << >>
    /\ constraints' = << >>
    /\ txs' = << >>
    /\ changeLog' = << >>
    /\ last' = Call("open", TRUE, 0, "")
    /\ caller' = [caller EXCEPT !.aliased = FALSE, !.shares = FALSE]
    /\ UNCHANGED <<commits, files, now, nFail, metaFile, result, inflight, stream, pubs>>

\* ---------------------------------------------------------------- reads
\* what a read call returns: an error, or records
NoResult == [err |-> FALSE, recs |-> {}]

\* no Compact call is between its d.currentVersion++ and its return
Idle == [active |-> FALSE, recs |-> {}]

\* ---------------------------------------------------------------- streams
\* the goroutines that publish
Publishers == {1, 2}

\* &deltaStream{name, streamType, config, stats: StreamStats{}} before Start.
\* closed and cancelled are the state of s.events and s.ctx; sent counts the
\* events sent on s.events, panicked is set by a send on a closed channel,
\* stopped by a Stop that returned nil
NoStream ==
    [isActive |-> FALSE, events |-> <<>>, closed |-> FALSE, cancelled |-> FALSE,
     EventsPublished |-> 0, ActiveSubscribers |-> 0,
     sent |-> 0, panicked |-> FALSE, stopped |-> FALSE]

\* a goroutine that is not inside Publish. Inside, left is the number of events
\* it has still to send, done says its ctx is cancelled, read is the value of
\* s.stats.EventsPublished it loaded for the increment
IdlePublisher == [pc |-> "idle", left |-> 0, done |-> FALSE, read |-> 0]

\* a Schema with nothing in it
NoSchema == [ID |-> 0, Version |-> 0, Fields |-> <<>>, Properties |-> NilMap]

\* ---------------------------------------------------------------- commit, step by step
\* CommitTransaction holds d.mutex and reads tx.isActive, tx.pendingDeletes and
\* tx.pendingWrites without tx.mutex; Insert, Update and Delete of the
\* transaction hold tx.mutex and not d.mutex. The two run side by side, so the
\* commit is two steps here: up to the return of applyTransactionChanges, and
\* from deltaTx.isActive = false to the return. An operation of the transaction
\* falls before the first, between the two, or after the second.

\* no CommitTransaction call is between its two steps
NoCommit == [tx |-> 0, writes |-> 0, deletes |-> 0]

\* CommitTransaction from d.mutex.Lock to the return of applyTransactionChanges;
\* a call that returns early releases d.mutex at once. writes and deletes are
\* the lengths of the buffers the loops of applyTransactionChanges ranged over
CommitApply(h) ==
    LET t    == txs[h]
        read == getAllFromFiles(currentVersion, files)
        recs == newExercises(read.recs, t)
    IN
    /\ caller.commit = NoCommit
    /\ IF ~t.isActive
       THEN /\ last' = Call("commit", FALSE, h, "transaction is not active")
            /\ UNCHANGED <<files, metadata, caller>>
       ELSE IF Len(t.conflicts) > 0
       THEN /\ last' = Call("commit", FALSE, h, "transaction has conflicts")
            /\ UNCHANGED <<files, metadata, caller>>
       ELSE IF read.err
       THEN /\ last' = Call("commit", FALSE, h, "failed to read current data")
            /\ UNCHANGED <<files, metadata, caller>>
       ELSE /\ files' = saveVersionData(files, currentVersion + 1, recs, "ok")
            /\ metadata' = [metadata EXCEPT !.RecordCount = Cardinality(recs)]
            /\ caller' = [caller EXCEPT !.commit = [tx |-> h, writes |-> Len(t.pendingWrites),
                                                    deletes |-> Len(t.pendingDeletes)]]
            /\ UNCHANGED last
    /\ UNCHANGED <<others, metaFile, commits, currentVersion, currentSchema, versions, transactions,
                   constraints, txs, now, nFail>>

\* CommitTransaction from deltaTx.isActive = false to the return
CommitFinish ==
    LET h  == caller.commit.tx
        id == committedVersionID(currentVersion)
    IN
    /\ caller.commit # NoCommit
    /\ txs' = [txs EXCEPT ![h].isActive = FALSE]
    /\ transactions' = MapDel(transactions, txs[h].id)
    /\ currentVersion' = id
    /\ versions' = MapPut(versions, id, commitVersion(id, txs[h], currentSchema.ID, now))
    /\ last' = Call("commit", TRUE, h, "")
    /\ commits' = commits + 1
    /\ metaFile' = saveMetadata(metaFile, currentSchema, metadata, versions', currentVersion', "ok")
    /\ caller' = [caller EXCEPT !.commit = NoCommit]
    /\ UNCHANGED <<others, currentSchema, metadata, constraints, files, now, nFail>>

\* d.mutex as GetByTimestamp and a committer see it. pc is "idle" while no
\* GetByTimestamp call is in progress and "getByVersion" while one holds
\* d.mutex.RLock() and is about to call GetByVersion for the version target;
\* waiting is the transaction whose CommitTransaction call is inside
\* d.mutex.Lock(), 0 when none is
NoLock == [pc |-> "idle", timestamp |-> 0, target |-> 0, waiting |-> 0]

\* The callers hold nothing of the table yet. passed is the Schema the last
\* ValidateSchemaCompatibility call was passed, checked the records the last
\* ValidateConstraints call was passed, filter the Filter the last QueryWithFilter
\* call was passed; aliased says that d.currentSchema is
\* the pointer a caller passed to EvolveSchema; copy is the Schema the last
\* GetCurrentSchema call returned, and shares says that its Properties map is
\* still the map of *d.currentSchema; job is the InsertBatchWithOptions call of
\* the batch inserter; memory is the MemoryRepository the callers use, inserted
\* the number of records they handed to its Insert and InsertBatch, asked the
\* last call they made on it and answer what it returned; commit is the
\* CommitTransaction call that is between its two steps; lock is d.mutex with
\* the calls that hold it and wait for it; stopping says that a Stop call on
\* the stream is inside s.mutex.Lock()
NoCaller ==
    [passed |-> NoSchema, checked |-> <<>>, filter |-> NoFilter, aliased |-> FALSE,
     copy |-> NoSchema, shares |-> FALSE, job |-> NoJob,
     memory |-> NewMemoryRepository, inserted |-> 0, asked |-> NoRequest,
     answer |-> Answer(FALSE, {}), commit |-> NoCommit, lock |-> NoLock,
     stopping |-> FALSE]

\* ---------------------------------------------------------------- start
\* metadata.json as initializeTable writes it for a new table
InitMetaFile ==
    metaContent(InitSchema, [CurrentVersion |-> 0, RecordCount |-> 0], (0 :> InitVersion), 0)

Init ==
    /\ currentVersion = 0
    /\ currentSchema = InitSchema
    /\ metadata = [CurrentVersion |-> 0, RecordCount |-> 0]
    /\ versions = (0 :> InitVersion)
    /\ transactions = << >>
    /\ constraints = << >>
    /\ txs = << >>
    /\ files = << >>
    /\ now = 0
    /\ nFail = 0
    /\ commits = 0
    /\ last = NoCall
    /\ metaFile = InitMetaFile
    /\ changeLog = << >>
    /\ result = NoResult
    /\ inflight = Idle
    /\ stream = NoStream
    /\ pubs = [p \in Publishers |-> IdlePublisher]
    /\ caller = NoCaller

\* ---------------------------------------------------------------- calls in parallel
\* the reads that call getAllFromFiles without taking d.mutex
UnlockedReads == {"getAll", "getByType", "getByDateRange", "queryWithFilter"}

\* GetAll, GetByType, GetByDateRange or QueryWithFilter with a filter every
\* record passes: d.currentVersion and the file are read whoever holds d.mutex
ReadUnlocked(op) ==
    /\ result' = getAllFromFiles(currentVersion, files)
    /\ last' = Call(op, ~result'.err, 0, "")
    /\ UNCHANGED <<currentVersion, currentSchema, metadata, versions, transactions,
                   constraints, txs, files, now, nFail, commits, metaFile, changeLog,
                   inflight, stream, pubs, caller>>

\* GetByID: d.mutex.RLock() waits while a writer holds the mutex
ReadLocked(id) ==
    /\ ~inflight.active
    /\ result' = [err |-> GetByID(id).err, recs |-> GetByID(id).recs]
    /\ last' = Call("getByID", ~result'.err, 0, "")
    /\ UNCHANGED <<currentVersion, currentSchema, metadata, versions, transactions,
                   constraints, txs, files, now, nFail, commits, metaFile, changeLog,
                   inflight, stream, pubs, caller>>

\* Compact from d.mutex.Lock() through d.currentVersion++
CompactIncrement ==
    LET read == getAllFromFiles(currentVersion, files)
    IN /\ ~inflight.active
       /\ IF read.err
          THEN /\ last' = Call("compact", FALSE, 0, "failed to read current data")
               /\ UNCHANGED <<currentVersion, inflight>>
          ELSE /\ currentVersion' = currentVersion + 1
               /\ inflight' = [active |-> TRUE, recs |-> read.recs]
               /\ last' = Call("compact", TRUE, 0, "running")
       /\ UNCHANGED <<currentSchema, metadata, versions, transactions, constraints, txs,
                      files, now, nFail, commits, metaFile, changeLog, result, stream, pubs, caller>>

\* Compact from saveVersionData to its return, which unlocks d.mutex
CompactSave(io, mio) ==
    /\ inflight.active
    /\ inflight' = Idle
    /\ files' = saveVersionData(files, currentVersion, inflight.recs, io)
    /\ IF Failed(io)
       THEN /\ nFail' = nFail + 1
            /\ last' = Call("compact", FALSE, 0, "failed to save data")
            /\ UNCHANGED <<metadata, metaFile>>
       ELSE /\ nFail' = IF Failed(mio) THEN nFail + 1 ELSE nFail
            /\ metadata' = [metadata EXCEPT !.CurrentVersion = currentVersion]
            /\ metaFile' = saveMetadata(metaFile, currentSchema, metadata', versions,
                                        currentVersion, mio)
            /\ last' = IF Failed(mio)
                       THEN Call("compact", FALSE, 0, "failed to save metadata")
                       ELSE Call("compact", TRUE, 0, "")
    /\ UNCHANGED <<currentVersion, currentSchema, versions, transactions, constraints, txs,
                   now, commits, changeLog, result, stream, pubs, caller>>

\* ---------------------------------------------------------------- time travel
\* time.Now() returns a later instant from now on
Tick ==
    /\ now' = now + 1
    /\ last' = Call("tick", TRUE, 0, "")
    /\ UNCHANGED <<currentVersion, currentSchema, metadata, versions, transactions,
                   constraints, txs, files, nFail, commits, metaFile, changeLog, result,
                   inflight, stream, pubs, caller>>

\* the versions GetByTimestamp's loop can end on: "for version := range
\* d.versions" visits them in any order and keeps the first it meets among
\* those of the latest timestamp not after the one asked for
timestampTargets(vers, timestamp) ==
    LET at == {v \in DOMAIN vers : vers[v].Timestamp <= timestamp}
    IN {v \in at : \A w \in at : vers[w].Timestamp <= vers[v].Timestamp}

GetByTimestamp(timestamp) ==
    /\ IF timestampTargets(versions, timestamp) = {}
       THEN result' = NoResult
       ELSE \E targetVersion \in timestampTargets(versions, timestamp) :
                result' = GetByVersion(targetVersion)
    /\ last' = Call("getByTimestamp", ~result'.err, timestamp, "")
    /\ UNCHANGED <<currentVersion, currentSchema, metadata, versions, transactions,
                   constraints, txs, files, now, nFail, commits, metaFile, changeLog,
                   inflight, stream, pubs, caller>>

\* ---------------------------------------------------------------- d.mutex, lock by lock
\* sync.RWMutex: RLock returns when no goroutine holds the write lock and none
\* is inside Lock, Lock returns when no goroutine holds the lock in either mode.
\* A reader that arrives while a writer waits is queued behind the writer.

\* d.mutex.RLock() returns
readLockFree(lock) == lock.waiting = 0

\* GetByTimestamp from d.mutex.RLock() to the call of GetByVersion; a call that
\* finds no version returns, and unlocks, at once
TimestampOuter(timestamp) ==
    /\ caller.lock.pc = "idle"
    /\ readLockFree(caller.lock)
    /\ IF timestampTargets(versions, timestamp) = {}
       THEN /\ result' = NoResult
            /\ last' = Call("getByTimestamp", TRUE, timestamp, "")
            /\ UNCHANGED caller
       ELSE /\ \E targetVersion \in timestampTargets(versions, timestamp) :
                   caller' = [caller EXCEPT !.lock.pc = "getByVersion",
                                            !.lock.timestamp = timestamp,
                                            !.lock.target = targetVersion]
            /\ UNCHANGED <<result, last>>
    /\ UNCHANGED <<currentVersion, currentSchema, metadata, versions, transactions,
                   constraints, txs, files, now, nFail, commits, metaFile, changeLog,
                   inflight, stream, pubs>>

\* GetByVersion called by GetByTimestamp, from its d.mutex.RLock() to the return
\* of GetByTimestamp, which releases both read locks
TimestampInner ==
    /\ caller.lock.pc = "getByVersion"
    /\ readLockFree(caller.lock)
    /\ result' = GetByVersion(caller.lock.target)
    /\ last' = Call("getByTimestamp", ~result'.err, caller.lock.timestamp, "")
    /\ caller' = [caller EXCEPT !.lock = [NoLock EXCEPT !.waiting = caller.lock.waiting]]
    /\ UNCHANGED <<currentVersion, currentSchema, metadata, versions, transactions,
                   constraints, txs, files, now, nFail, commits, metaFile, changeLog,
                   inflight, stream, pubs>>

\* a goroutine calls CommitTransaction and enters d.mutex.Lock()
CommitLock(h) ==
    /\ caller.lock.waiting = 0
    /\ caller' = [caller EXCEPT !.lock.waiting = h]
    /\ UNCHANGED <<currentVersion, currentSchema, metadata, versions, transactions,
                   constraints, txs, files, now, nFail, commits, metaFile, changeLog,
                   result, last, inflight, stream, pubs>>

\* d.mutex.Lock() returns to it: CommitTransaction from there to its return
CommitLocked ==
    /\ caller.lock.waiting # 0
    /\ caller.lock.pc = "idle"
    /\ CommitOn(txs, transactions, caller.lock.waiting, "ok", "ok")
    /\ caller' = [caller EXCEPT !.lock.waiting = 0]

\* ---------------------------------------------------------------- stream calls
\* the repository's variables, which no method of deltaStream touches
table == <<currentVersion, currentSchema, metadata, versions, transactions, constraints,
           txs, files, now, nFail, commits, metaFile, changeLog, result, inflight, caller>>

\* s.mutex.Lock() returns: no goroutine holds s.mutex.RLock(), which Publish
\* holds from its first line to its return
writeLockFree(ps) == \A p \in DOMAIN ps : ps[p].pc = "idle"

Start ==
    /\ writeLockFree(pubs)
    /\ IF stream.isActive
       THEN /\ last' = Call("start", FALSE, 0, "stream is already active")
            /\ UNCHANGED stream
       ELSE /\ stream' = [stream EXCEPT !.isActive = TRUE, !.events = <<>>,
                                        !.closed = FALSE, !.cancelled = FALSE]
            /\ last' = Call("start", TRUE, 0, "")
    /\ UNCHANGED <<table, pubs>>

Stop ==
    /\ writeLockFree(pubs)
    /\ IF ~stream.isActive
       THEN /\ last' = Call("stop", FALSE, 0, "stream is not active")
            /\ UNCHANGED stream
       ELSE /\ stream' = [stream EXCEPT !.cancelled = TRUE, !.closed = TRUE,
                                        !.isActive = FALSE, !.stopped = TRUE]
            /\ last' = Call("stop", TRUE, 0, "")
    /\ UNCHANGED <<table, pubs>>

Subscribe ==
    /\ IF ~stream.isActive
       THEN /\ last' = Call("subscribe", FALSE, 0, "stream is not active")
            /\ UNCHANGED stream
       ELSE /\ stream' = [stream EXCEPT !.ActiveSubscribers = @ + 1]
            /\ last' = Call("subscribe", TRUE, 0, "")
    /\ UNCHANGED <<table, pubs>>

\* Publish from s.mutex.RLock() to the first select; done: ctx is cancelled
\* already
PublishBegin(p, n, done) ==
    /\ pubs[p].pc = "idle"
    /\ IF ~stream.isActive
       THEN /\ last' = Call("publish", FALSE, p, "stream is not active")
            /\ UNCHANGED pubs
       ELSE /\ pubs' = [pubs EXCEPT ![p] = [pc |-> "select", left |-> n, done |-> done,
                                            read |-> 0]]
            /\ last' = Call("publishing", TRUE, p, "")
    /\ UNCHANGED <<table, stream>>

\* case s.events <- event, and the load of s.stats.EventsPublished++: the send
\* waits for room in the buffer; on a closed channel it panics
PublishSend(p) ==
    /\ pubs[p].pc = "select"
    /\ stream.closed \/ Len(stream.events) < StreamBuffer
    /\ IF stream.closed
       THEN /\ stream' = [stream EXCEPT !.panicked = TRUE]
            /\ pubs' = [pubs EXCEPT ![p] = IdlePublisher]
       ELSE /\ stream' = [stream EXCEPT !.events = Append(@, p), !.sent = @ + 1]
            /\ pubs' = [pubs EXCEPT ![p].pc = "count", ![p].read = stream.EventsPublished]
    /\ last' = Call("send", TRUE, p, "")
    /\ UNCHANGED table

\* the store of s.stats.EventsPublished++, then the next event or return nil
PublishCount(p) ==
    /\ pubs[p].pc = "count"
    /\ stream' = [stream EXCEPT !.EventsPublished = pubs[p].read + 1]
    /\ IF pubs[p].left = 1
       THEN /\ pubs' = [pubs EXCEPT ![p] = IdlePublisher]
            /\ last' = Call("publish", TRUE, p, "")
       ELSE /\ pubs' = [pubs EXCEPT ![p].pc = "select", ![p].left = @ - 1]
            /\ last' = Call("count", TRUE, p, "")
    /\ UNCHANGED table

\* case <-ctx.Done(): return ctx.Err()
PublishCancelled(p) ==
    /\ pubs[p].pc = "select"
    /\ pubs[p].done
    /\ pubs' = [pubs EXCEPT ![p] = IdlePublisher]
    /\ last' = Call("publish", FALSE, p, "context canceled")
    /\ UNCHANGED <<table, stream>>

\* the caller cancels the ctx it passed to Publish
Cancel(p) ==
    /\ pubs[p].pc # "idle"
    /\ ~pubs[p].done
    /\ pubs' = [pubs EXCEPT ![p].done = TRUE]
    /\ last' = Call("cancel", TRUE, p, "")
    /\ UNCHANGED <<table, stream>>

\* a subscriber receives from the channel Subscribe returned
Receive ==
    /\ stream.events # <<>>
    /\ stream' = [stream EXCEPT !.events = Tail(@)]
    /\ last' = Call("receive", TRUE, 0, "")
    /\ UNCHANGED <<table, pubs>>

\* ---------------------------------------------------------------- s.mutex, lock by lock
\* s.mutex.RLock() returns: no goroutine is inside s.mutex.Lock()
streamReadLockFree == ~caller.stopping

\* the repository's variables but the callers'
tableOfCallers == <<currentVersion, currentSchema, metadata, versions, transactions, constraints,
                    txs, files, now, nFail, commits, metaFile, changeLog, result, inflight>>

\* a goroutine calls Stop and enters s.mutex.Lock()
StopLock ==
    /\ ~caller.stopping
    /\ caller' = [caller EXCEPT !.stopping = TRUE]
    /\ UNCHANGED <<tableOfCallers, stream, pubs, last>>

\* s.mutex.Lock() returns to it: Stop from there to its return
StopLocked ==
    /\ caller.stopping
    /\ writeLockFree(pubs)
    /\ IF ~stream.isActive
       THEN /\ last' = Call("stop", FALSE, 0, "stream is not active")
            /\ UNCHANGED stream
       ELSE /\ stream' = [stream EXCEPT !.cancelled = TRUE, !.closed = TRUE,
                                        !.isActive = FALSE, !.stopped = TRUE]
            /\ last' = Call("stop", TRUE, 0, "")
    /\ caller' = [caller EXCEPT !.stopping = FALSE]
    /\ UNCHANGED <<tableOfCallers, pubs>>

\* ---------------------------------------------------------------- runs
Handles == 1..Len(txs)

\* a buffered operation is accepted while the run's budget of operations lasts
Room(h, maxOps) == txs[h].isActive => TotalOps < maxOps

\* a write may fail only while the run's budget of failures lasts; the metadata
\* file is written only after the data file was
Budget(io, mio) ==
    /\ (Failed(io) \/ Failed(mio)) => nFail < MaxFail
    /\ Failed(io) => mio = "ok"

\* the outcome of a write is drawn only for a commit that gets to write
Writes(h, io, mio) == Budget(io, mio) /\ (~txs[h].isActive => io = "ok" /\ mio = "ok")

\* records that break no constraint
PlainExercises == {e \in Exercises : e.Duration > 0}

\* the records a caller updates carry the id of a stored record
UpdatedExercises == {e \in PlainExercises : e.ID # 0}

\* the records a caller inserts as new: id 0, the id is assigned by the commit
FreshExercises == {e \in PlainExercises : e.ID = 0}

\* a write that fails before the file is opened for writing
CleanOutcomes == {"ok", "untouched"}

\* The transaction manager: transactions over one table, begun, filled, committed
\* and rolled back in any order, every write of a commit able to fail.
Next ==
    \/ Len(txs) < MaxTx /\ BeginTransaction
    \/ \E h \in Handles, e \in FreshExercises : Room(h, MaxOps) /\ TxInsert(h, e)
    \/ \E h \in Handles, e \in UpdatedExercises : Room(h, MaxOps) /\ TxUpdate(h, e)
    \/ \E h \in Handles, i \in IDs \ {0} : Room(h, MaxOps) /\ TxDelete(h, i)
    \/ \E h \in Handles : RollbackTransaction(h)
    \/ \E h \in Handles, io \in CleanOutcomes, mio \in MetaOutcomes :
          Writes(h, io, mio) /\ CommitTransaction(h, io, mio)

Spec == Init /\ [][Next]_vars

\* The constraint engine beside the transaction manager: constraints added and
\* removed while records of any duration are inserted and committed.
NextRules ==
    \/ Len(txs) < RulesTx /\ BeginTransaction
    \/ \E h \in Handles, e \in Exercises : Room(h, RulesOps) /\ TxInsert(h, e)
    \/ \E h \in Handles, io \in IOOutcomes, mio \in MetaOutcomes :
          Writes(h, io, mio) /\ CommitTransaction(h, io, mio)
    \/ \E c \in NewConstraints, mio \in MetaOutcomes : Budget("ok", mio) /\ AddConstraint(c, mio)
    \/ \E n \in ConstraintNames, mio \in MetaOutcomes : Budget("ok", mio) /\ RemoveConstraint(n, mio)

SpecRules == Init /\ [][NextRules]_vars

\* The whole table: commits of inserts and deletes between checkpoints, rewrites
\* and schema evolutions.
NextLake ==
    \/ Len(txs) < LakeTx /\ BeginTransaction
    \/ \E h \in Handles, e \in PlainExercises : Room(h, LakeOps) /\ TxInsert(h, e)
    \/ \E h \in Handles, i \in IDs \ {0} : Room(h, LakeOps) /\ TxDelete(h, i)
    \/ \E h \in Handles, io \in IOOutcomes, mio \in MetaOutcomes :
          currentVersion < LakeVersion /\ Writes(h, io, mio) /\ CommitTransaction(h, io, mio)
    \/ \E io \in IOOutcomes, mio \in MetaOutcomes :
          currentVersion < LakeVersion /\ Budget(io, mio) /\ CreateVersion(io, mio)
    \/ \E io \in IOOutcomes, mio \in MetaOutcomes :
          currentVersion < LakeVersion /\ Budget(io, mio) /\ Compact(io, mio)
    \/ \E io \in IOOutcomes, mio \in MetaOutcomes :
          currentVersion < LakeVersion /\ Budget(io, mio) /\ OptimizeTable(io, mio)
    \/ \E s \in NewSchemas, mio \in MetaOutcomes :
          currentVersion < LakeVersion /\ Budget("ok", mio) /\ EvolveSchema(s, mio)

SpecLake == Init /\ [][NextLake]_vars

\* The schema registry beside the transaction manager: schemas offered to
\* EvolveSchema, accepted or rejected, between commits of records.
NextSchema ==
    \/ Len(txs) < SchemaTx /\ BeginTransaction
    \/ \E h \in Handles, e \in PlainExercises : Room(h, SchemaOps) /\ TxInsert(h, e)
    \/ \E h \in Handles, mio \in MetaOutcomes :
          currentVersion < SchemaVersion /\ Writes(h, "ok", mio) /\ CommitTransaction(h, "ok", mio)
    \/ \E s \in NewSchemas, mio \in MetaOutcomes :
          currentVersion < SchemaVersion /\ Budget("ok", mio) /\ EvolveSchema(s, mio)

SpecSchema == Init /\ [][NextSchema]_vars

\* The schema registry alone: schemas of every shape offered to
\* ValidateSchemaCompatibility and to EvolveSchema.
NextCompat ==
    \/ \E s \in OfferedSchemas : ValidateSchemaCompatibility(s)
    \/ \E s \in OfferedSchemas : currentVersion < CompatVersion /\ EvolveSchema(s, "ok")

SpecCompat == Init /\ [][NextCompat]_vars

\* The schema registry and the callers that hold Schema objects: the ones they
\* passed to EvolveSchema and the ones GetCurrentSchema returned.
NextAlias ==
    \/ \E s \in PropertySchemas : currentVersion < AliasVersion /\ EvolveSchema(s, "ok")
    \/ ReadSchema
    \/ MutateFields
    \/ \E key \in {"owner", "edited"} : MutateProperties(key)
    \/ \E s \in NewSchemas : MutatePassed(s.Fields)

SpecAlias == Init /\ [][NextAlias]_vars

\* The constraint engine alone: constraints of every kind added and removed.
NextConstraints ==
    \/ \E c \in OfferedConstraints, mio \in MetaOutcomes :
          Budget("ok", mio) /\ AddConstraint(c, mio)
    \/ \E c \in OfferedConstraints, mio \in MetaOutcomes :
          Budget("ok", mio) /\ RemoveConstraint(c.Name, mio)

SpecConstraints == Init /\ [][NextConstraints]_vars

\* The constraint engine in use: records of every shape validated against the
\* constraints added so far.
NextValidate ==
    \/ \E c \in OfferedConstraints : AddConstraint(c, "ok")
    \/ \E c \in OfferedConstraints : RemoveConstraint(c.Name, "ok")
    \/ \E b \in CheckedBatches : CallValidateConstraints(b)

SpecValidate == Init /\ [][NextValidate]_vars

\* Condition{Field: field, Operator: operator, Value: value}
Condition(field, operator, value) == [Field |-> field, Operator |-> operator, Value |-> value]

\* the conditions a caller passes: equals, not-equals, greater-than and like with
\* operands of the right type and of the wrong one, an operator matchesCondition
\* does not know, and a field no record has
Conditions ==
    { Condition("duration", "eq",   GoInt(30)),
      Condition("duration", "ne",   GoInt(30)),
      Condition("duration", "ne",   GoString(<<"r", "u">>)),
      Condition("duration", "gt",   GoInt(30)),
      Condition("duration", "gt",   GoString(<<"r", "u">>)),
      Condition("duration", "like", GoString(<<"r", "u">>)),
      Condition("duration", "lt",   GoInt(45)),
      Condition("type",     "eq",   GoString(<<"r">>)),
      Condition("type",     "like", GoString(<<"r", "u">>)),
      Condition("type",     "like", GoInt(30)),
      Condition("type",     "gt",   GoInt(30)),
      Condition("weight",   "eq",   GoInt(30)),
      Condition("weight",   "ne",   GoInt(30)) }

\* the filters a caller passes without sorting and pagination: no condition, one
\* condition, and three pairs
Filters ==
    { [NoFilter EXCEPT !.Conditions = cs] :
        cs \in {<<>>} \cup { <<c>> : c \in Conditions } \cup
               { <<Condition("duration", "gt", GoInt(30)),
                   Condition("type", "like", GoString(<<"r", "u">>))>>,
                 <<Condition("duration", "ne", GoInt(30)),
                   Condition("type", "eq", GoString(<<"r">>))>>,
                 <<Condition("duration", "eq", GoInt(30)),
                   Condition("weight", "ne", GoInt(30))>> } }

\* The query engine over committed records: filters of every shape.
NextQuery ==
    \/ Len(txs) < QueryTx /\ BeginTransaction
    \/ \E h \in Handles, e \in QueryExercises : Room(h, QueryOps) /\ TxInsert(h, e)
    \/ \E h \in Handles : CommitTransaction(h, "ok", "ok")
    \/ \E f \in Filters : QueryWithFilter(f)

SpecQuery == Init /\ [][NextQuery]_vars

\* the offsets and limits a caller passes: none, and the numbers from -1 on
Offsets == {NilPtr} \cup {ValPtr(n) : n \in -1..MaxOffset}

\* the filters a caller passes for a page of all records, as they come or sorted
\* by the rendering of the duration
Pages ==
    { [NoFilter EXCEPT !.SortBy = sb, !.Limit = l, !.Offset = o] :
        sb \in {<<>>, <<[Field |-> "duration", Order |-> "asc"]>>},
        l \in Offsets, o \in Offsets }

\* The query engine over committed records: pages of every size.
NextPage ==
    \/ Len(txs) < PageTx /\ BeginTransaction
    \/ \E h \in Handles, e \in QueryExercises : Room(h, PageOps) /\ TxInsert(h, e)
    \/ \E h \in Handles : CommitTransaction(h, "ok", "ok")
    \/ \E f \in Pages : QueryWithFilter(f)

SpecPage == Init /\ [][NextPage]_vars

\* the slices InsertBatchWithOptions is passed: the element at index i carries
\* the id i + 1 and a duration the validator accepts or rejects
Batches ==
    UNION { { [i \in 1..n |-> [ID |-> i, Duration |-> ds[i]]] : ds \in [1..n -> Durations] } :
            n \in 0..MaxBatch }

\* the options it is passed: the default batch size or batches of one
OfferedOptions ==
    { BatchOptions(b, s, v) : b \in {0, 1}, s \in BOOLEAN, v \in BOOLEAN }

\* The batch inserter and a goroutine that closes the repository: the calls of
\* one InsertBatchWithOptions at a time, between which Close may run.
NextBatch ==
    \/ \E exercises \in Batches, options \in OfferedOptions :
          Len(txs) < BatchTx /\ InsertBatchBegin(exercises, options)
    \/ InsertBatchItem
    \/ InsertBatchCommit("ok", "ok")
    \/ Close("ok")

SpecBatch == Init /\ [][NextBatch]_vars

\* the ids the callers of the in-memory engine name: from 0 to one beyond the
\* ids it can have assigned
MemoryIDs == 0..(MaxInserted + 1)

MemoryExercises == [ID : MemoryIDs, Duration : Durations]

\* the slices its InsertBatch is passed: none, one or two records
MemoryBatches == {<<>>} \cup { <<e>> : e \in Exercises } \cup { <<e, f>> : e, f \in Exercises }

\* The in-memory engine alone: records inserted one by one and in batches,
\* updated, deleted and read, whatever id they carry.
NextMemory ==
    \/ \E e \in Exercises : caller.inserted < MaxInserted /\ MemoryInsert(e)
    \/ \E b \in MemoryBatches :
          caller.inserted + Len(b) <= MaxInserted /\ MemoryInsertBatch(b)
    \/ \E e \in MemoryExercises : MemoryUpdate(e)
    \/ \E id \in MemoryIDs : MemoryDelete(id)
    \/ \E id \in MemoryIDs : MemoryGetByID(id)
    \/ MemoryGetAll

SpecMemory == Init /\ [][NextMemory]_vars

\* the ids the callers of the two engines name: the ones a table of
\* EngineVersion versions can hold
EngineIDs == 1..EngineVersion

\* the records Update is passed: the other duration under each id
EngineExercises == { [ID |-> id, Duration |-> Min(Durations)] : id \in EngineIDs }

\* what the DeltaLakeRepository returned for the last call made on it: the
\* error of the commit for a write, the error and the records for a read
deltaAnswer ==
    IF last.op = "commit" THEN Answer(~last.ok, {}) ELSE Answer(result.err, result.recs)

\* The two engines side by side: every call made on both, new records inserted
\* with id 0.
NextEngines ==
    \/ \E e \in FreshExercises : currentVersion < EngineVersion /\ BothInsert(e)
    \/ \E e \in EngineExercises : currentVersion < EngineVersion /\ BothUpdate(e)
    \/ \E id \in EngineIDs : currentVersion < EngineVersion /\ BothDelete(id)
    \/ \E id \in EngineIDs : BothGetByID(id)
    \/ BothGetAll

SpecEngines == Init /\ [][NextEngines]_vars

\* The commit of transactions that mix deletes, writes that carry an id and
\* writes that ask for one, each begun after the one before has committed.
NextApply ==
    \/ Len(txs) < ApplyTx /\ (\A h \in Handles : ~txs[h].isActive) /\ BeginTransaction
    \/ \E h \in Handles, e \in Exercises :
          txs[h].isActive /\ Room(h, ApplyOps) /\ TxInsert(h, e)
    \/ \E h \in Handles, e \in UpdatedExercises :
          txs[h].isActive /\ Room(h, ApplyOps) /\ TxUpdate(h, e)
    \/ \E h \in Handles, i \in IDs \ {0} :
          txs[h].isActive /\ Room(h, ApplyOps) /\ TxDelete(h, i)
    \/ \E h \in Handles : txs[h].isActive /\ CommitTransaction(h, "ok", "ok")

SpecApply == Init /\ [][NextApply]_vars

\* the records written by transactions that are open at the same time: a new
\* one, and one under id 1
SharedExercises == FreshExercises \cup {[ID |-> 1, Duration |-> Min(Durations)]}

\* Transactions open at the same time on one table: begun at the same read
\* version, filled and committed in any order.
NextShared ==
    \/ Len(txs) < SharedTx /\ BeginTransaction
    \/ \E h \in Handles, e \in SharedExercises :
          txs[h].isActive /\ Room(h, SharedOps) /\ TxInsert(h, e)
    \/ \E h \in Handles, i \in IDs \ {0} :
          txs[h].isActive /\ Room(h, SharedOps) /\ TxDelete(h, i)
    \/ \E h \in Handles : CommitTransaction(h, "ok", "ok")

SpecShared == Init /\ [][NextShared]_vars

\* The rewrites of a table: records committed, then checkpoints, compactions
\* and optimizations whose writes may fail.
NextRewrite ==
    \/ Len(txs) < RewriteTx /\ BeginTransaction
    \/ \E h \in Handles, e \in FreshExercises :
          txs[h].isActive /\ Room(h, RewriteOps) /\ TxInsert(h, e)
    \/ \E h \in Handles :
          currentVersion < RewriteVersion /\ CommitTransaction(h, "ok", "ok")
    \/ \E io \in IOOutcomes, mio \in MetaOutcomes :
          currentVersion < RewriteVersion /\ Budget(io, mio) /\ CreateVersion(io, mio)
    \/ \E io \in IOOutcomes, mio \in MetaOutcomes :
          currentVersion < RewriteVersion /\ Budget(io, mio) /\ Compact(io, mio)
    \/ \E io \in IOOutcomes, mio \in MetaOutcomes :
          currentVersion < RewriteVersion /\ Budget(io, mio) /\ OptimizeTable(io, mio)

SpecRewrite == Init /\ [][NextRewrite]_vars

\* One goroutine commits a transaction while another still calls Insert, Update
\* and Delete on it: the operations fall before, between and after the two steps
\* of the commit. BeginTransaction needs d.mutex, which the commit holds between
\* its steps.
NextUnlocked ==
    \/ /\ Len(txs) < UnlockedTx /\ caller.commit = NoCommit
       /\ (\A h \in Handles : ~txs[h].isActive) /\ BeginTransaction
    \/ \E h \in Handles, e \in SharedExercises : Room(h, UnlockedOps) /\ TxInsert(h, e)
    \/ \E h \in Handles, e \in UpdatedExercises : Room(h, UnlockedOps) /\ TxUpdate(h, e)
    \/ \E h \in Handles, i \in IDs \ {0} : Room(h, UnlockedOps) /\ TxDelete(h, i)
    \/ \E h \in Handles : CommitApply(h)
    \/ CommitFinish

SpecUnlocked == Init /\ [][NextUnlocked]_vars

\* The table over its life on disk: records committed, the table rewritten, the
\* schema evolved, the repository closed and opened again on the same path.
NextStore ==
    \/ Len(txs) < StoreTx /\ BeginTransaction
    \/ \E h \in Handles, e \in PlainExercises : Room(h, StoreOps) /\ TxInsert(h, e)
    \/ \E h \in Handles, mio \in MetaOutcomes :
          currentVersion < StoreVersion /\ Writes(h, "ok", mio) /\ CommitTransaction(h, "ok", mio)
    \/ \E mio \in MetaOutcomes :
          currentVersion < StoreVersion /\ Budget("ok", mio) /\ Compact("ok", mio)
    \/ \E s \in NewSchemas, mio \in MetaOutcomes :
          currentVersion < StoreVersion /\ Budget("ok", mio) /\ EvolveSchema(s, mio)
    \/ \E mio \in MetaOutcomes : last.op # "close" /\ Budget("ok", mio) /\ Close(mio)
    \/ last.op = "close" /\ Open

SpecStore == Init /\ [][NextStore]_vars

\* Calls in parallel: readers beside one goroutine that commits and compacts.
\* A call that takes d.mutex runs while no Compact holds it.
NextRace ==
    \/ ~inflight.active /\ Len(txs) < RaceTx /\ BeginTransaction
    \/ \E h \in Handles, e \in PlainExercises : Room(h, RaceOps) /\ TxInsert(h, e)
    \/ \E h \in Handles :
          ~inflight.active /\ currentVersion < RaceVersion /\ CommitTransaction(h, "ok", "ok")
    \/ currentVersion < RaceVersion /\ CompactIncrement
    \/ \E io \in CleanOutcomes, mio \in MetaOutcomes : Budget(io, mio) /\ CompactSave(io, mio)
    \/ \E op \in UnlockedReads : ReadUnlocked(op)
    \/ \E i \in IDs \ {0} : ReadLocked(i)

SpecRace == Init /\ [][NextRace]_vars

\* the instants a caller asks GetByTimestamp for: before the table was created,
\* and every instant of the run
Timestamps == -1 .. MaxClock

\* The table over time: the clock advances between some calls and stands still
\* between others.
NextTime ==
    \/ Len(txs) < TimeTx /\ BeginTransaction
    \/ \E h \in Handles, e \in PlainExercises : Room(h, TimeOps) /\ TxInsert(h, e)
    \/ \E h \in Handles : RollbackTransaction(h)
    \/ \E h \in Handles : CommitTransaction(h, "ok", "ok")
    \/ now < MaxClock /\ Tick
    \/ \E t \in Timestamps : GetByTimestamp(t)
    \/ \E mio \in MetaOutcomes : Budget("ok", mio) /\ Close(mio)

SpecTime == Init /\ [][NextTime]_vars

\* Readers by timestamp beside committers: GetByTimestamp calls and
\* CommitTransaction calls take d.mutex in their own steps. BeginTransaction
\* takes the write lock and returns in one step, while no reader holds it.
NextReaders ==
    \/ Len(txs) < ReadersTx /\ caller.lock.pc = "idle" /\ BeginTransaction
    \/ \E h \in Handles, e \in FreshExercises :
          txs[h].isActive /\ Room(h, ReadersOps) /\ TxInsert(h, e)
    \/ now < MaxClock /\ Tick
    \/ \E t \in Timestamps : TimestampOuter(t)
    \/ TimestampInner
    \/ \E h \in Handles : txs[h].isActive /\ CommitLock(h)
    \/ CommitLocked

\* a goroutine that can take the lock it asked for does take it
SpecReaders ==
    Init /\ [][NextReaders]_vars /\ WF_vars(TimestampInner) /\ WF_vars(CommitLocked)

\* One stream: goroutines publish batches of events while others start and
\* stop it, subscribe and receive.
NextStream ==
    \/ Start
    \/ Stop
    \/ stream.ActiveSubscribers < MaxSubscribers /\ Subscribe
    \/ \E p \in Publishers, n \in 1..MaxEvents, done \in BOOLEAN :
          stream.sent < MaxSent /\ PublishBegin(p, n, done)
    \/ \E p \in Publishers : PublishSend(p)
    \/ \E p \in Publishers : PublishCount(p)
    \/ \E p \in Publishers : PublishCancelled(p)
    \/ \E p \in Publishers : Cancel(p)
    \/ Receive

SpecStream == Init /\ [][NextStream]_vars

\* The stream with a Stop call that waits for its lock: while it waits, Start,
\* Subscribe and Publish calls that arrive queue behind it; the Publish calls
\* already inside go on. A ctx is cancelled, if at all, after Publish was called.
NextStopping ==
    \/ ~caller.stopping /\ Start
    \/ StopLock
    \/ StopLocked
    \/ streamReadLockFree /\ stream.ActiveSubscribers < MaxSubscribers /\ Subscribe
    \/ \E p \in Publishers, n \in 1..MaxEvents :
          streamReadLockFree /\ stream.sent < MaxSent /\ PublishBegin(p, n, FALSE)
    \/ \E p \in Publishers : PublishSend(p)
    \/ \E p \in Publishers : PublishCount(p)
    \/ \E p \in Publishers : PublishCancelled(p)
    \/ \E p \in Publishers : Cancel(p)
    \/ Receive

\* a goroutine that can go on does; nothing makes a subscriber receive or a
\* caller cancel its ctx
SpecStopping ==
    /\ Init /\ [][NextStopping]_vars
    /\ WF_vars(StopLocked)
    /\ \A p \in Publishers :
          WF_vars(PublishSend(p)) /\ WF_vars(PublishCount(p)) /\ WF_vars(PublishCancelled(p))

\* ---------------------------------------------------------------- history
RECURSIVE sortByID(_)
sortByID(S) ==
    IF S = {} THEN <<>>
    ELSE LET m == CHOOSE v \in S : \A w \in S : v.ID <= w.ID
         IN <<m>> \o sortByID(S \ {m})

\* GetVersionHistory: the Versions of d.versions in ascending order of id
GetVersionHistory == sortByID(Range(versions))

\* what a reader of a Version sees as its parent id while d.currentVersion is
\* cur: -1 for a nil pointer
ParentOf(v, cur) == IF v.ParentID.kind = "nil" THEN -1 ELSE Deref(v.ParentID, cur)

Ascending(h) == \A i \in 1..(Len(h) - 1) : h[i].ID < h[i + 1].ID

\* ---------------------------------------------------------------- claims

\* C1: every successful CommitTransaction creates a Version whose id is the
\* current version id before the commit plus 1 and whose parent id is the
\* current version id before the commit.
C1_CommitLinksToPrior ==
    [][(last'.op = "commit" /\ last'.ok) =>
          /\ currentVersion' = currentVersion + 1
          /\ currentVersion' \in DOMAIN versions' \ DOMAIN versions
          /\ versions'[currentVersion'].ID = currentVersion + 1
          /\ ParentOf(versions'[currentVersion'], currentVersion') = currentVersion]_vars

\* C2: a CommitTransaction that returns an error because the snapshot file or
\* the metadata file could not be written leaves the current version, the
\* version index and the records GetAll returns as they were.
C2_FailedCommitChangesNothing ==
    [][(/\ last'.op = "commit"
        /\ last'.err \in {"failed to save version data", "failed to save metadata"}) =>
          /\ currentVersion' = currentVersion
          /\ versions' = versions
          /\ GetAll' = GetAll]_vars

\* C3: for every version created by a commit or by CreateVersion, GetByVersion
\* returns the record set that was written for it, whatever happened since.
C3_GetByVersionRoundTrip ==
    \A v \in DOMAIN versions :
        versions[v].Description \in {"Transaction committed", "checkpoint"} =>
            /\ ~GetByVersion(v).err
            /\ PartFile(v) \in DOMAIN files
            /\ GetByVersion(v).recs = files[PartFile(v)].recs

\* C4: after N successful commits and nothing else on a fresh table,
\* GetVersionHistory returns N+1 versions in strictly ascending order of id.
C4_HistoryOfCommits ==
    nFail = 0 =>
        /\ Len(GetVersionHistory) = commits + 1
        /\ Ascending(GetVersionHistory)
        /\ GetVersionHistory[1].ID = 0

C4_Witness ==
    /\ nFail = 0
    /\ commits = 2
    /\ last.op = "commit" /\ last.ok
    /\ Len(GetVersionHistory) = 3

\* C5: every successful CommitTransaction, EvolveSchema, Compact and
\* OptimizeTable adds exactly one Version, whose id is the new current version.
C5_OneVersionPerOperation ==
    [][(last'.ok /\ last'.op \in {"commit", "evolveSchema", "compact", "optimize"}) =>
          /\ Len(GetVersionHistory') = Len(GetVersionHistory) + 1
          /\ DOMAIN versions' = DOMAIN versions \cup {currentVersion'}]_vars

\* C6: a Version created by CreateVersion or EvolveSchema has the current
\* version id before the call as its parent id, and the parent id of an
\* existing Version never changes.
C6_ParentLineage ==
    [][/\ (last'.ok /\ last'.op \in {"createVersion", "evolveSchema"}) =>
              ParentOf(versions'[currentVersion'], currentVersion') = currentVersion
       /\ \A v \in DOMAIN versions :
              v \in DOMAIN versions' /\ ParentOf(versions'[v], currentVersion') = ParentOf(versions[v], currentVersion)]_vars

\* C7: RollbackTransaction succeeds on an active transaction and fails on one
\* that is not active, which a rolled back transaction stays; no rollback
\* changes the current version, the version index or what GetAll returns.
C7_RollbackTwice ==
    [][/\ last'.op = "rollback" =>
              /\ last'.ok <=> txs[last'.tx].isActive
              /\ ~txs'[last'.tx].isActive
              /\ currentVersion' = currentVersion
              /\ versions' = versions
              /\ GetAll' = GetAll
       /\ \A h \in Handles : ~txs[h].isActive => ~txs'[h].isActive]_vars

\* a second rollback was refused: the transaction's buffers are empty though it
\* logged operations, so it was rolled back before
C7_Witness ==
    /\ last.op = "rollback" /\ ~last.ok
    /\ txs[last.tx].operations # <<>>
    /\ txs[last.tx].pendingWrites = <<>> /\ txs[last.tx].pendingDeletes = <<>>

\* C8: on a terminal transaction Insert, Update, Delete and CommitTransaction
\* return an error, leave its buffers and its operation log as they were and
\* create no version.
C8_TerminalTransaction ==
    [][\A h \in Handles :
          (/\ ~txs[h].isActive
           /\ last'.tx = h
           /\ last'.op \in {"insert", "update", "delete", "commit"}) =>
              /\ ~last'.ok
              /\ txs'[h] = txs[h]
              /\ versions' = versions
              /\ currentVersion' = currentVersion]_vars

\* an Insert was refused by a transaction that had committed
C8_Witness ==
    /\ last.op = "insert" /\ ~last.ok
    /\ ~txs[last.tx].isActive
    /\ commits > 0
    /\ txs[last.tx].pendingWrites # <<>>

\* C9: with an enabled range constraint on "duration", committing a record with
\* a negative duration fails with an error naming the constraint and creates no
\* version.
C9_ConstraintBlocksCommit ==
    [][(/\ last'.op = "commit"
        /\ txs[last'.tx].isActive
        /\ ValidateConstraints(constraints, txs[last'.tx].pendingWrites) # 0) =>
          /\ ~last'.ok
          /\ last'.err = "constraint positive_duration violated"
          /\ currentVersion' = currentVersion
          /\ versions' = versions]_vars

\* the new schema keeps every field of the old one as it was, and the fields it
\* adds are nullable
OnlyAddsNullable(old, new) ==
    /\ \A i \in 1..Len(old.Fields) :
           HasField(new, old.Fields[i].Name) /\ FieldNamed(new, old.Fields[i].Name) = old.Fields[i]
    /\ \A i \in 1..Len(new.Fields) :
           ~HasField(old, new.Fields[i].Name) => new.Fields[i].Nullable

\* C10: after a successful EvolveSchema that only adds a nullable field, GetAll
\* and GetByID still return every record GetAll returned before, and there is
\* exactly one version more.
C10_EvolveKeepsRecords ==
    [][(/\ last'.op = "evolveSchema" /\ last'.ok
        /\ OnlyAddsNullable(currentSchema, currentSchema')) =>
          /\ GetAll.recs \subseteq GetAll'.recs
          /\ \A e \in GetAll.recs : findByID(GetAll', e.ID).recs = {e}
          /\ Cardinality(DOMAIN versions') = Cardinality(DOMAIN versions) + 1]_vars

\* C11: a call of EvolveSchema that rejects the new schema leaves
\* GetCurrentSchema, the current version and the version index as they were,
\* and a schema that adds a field neither nullable nor defaulted is rejected.
C11_RejectedSchemaChangesNothing ==
    [][last'.op = "evolveSchema" =>
          /\ last'.err = "schema is not compatible" =>
                 /\ GetCurrentSchema' = GetCurrentSchema
                 /\ currentVersion' = currentVersion
                 /\ versions' = versions
          /\ \A i \in 1..Len(currentSchema'.Fields) :
                 LET f == currentSchema'.Fields[i]
                 IN ~HasField(currentSchema, f.Name) => f.Nullable \/ f.HasDefault]_vars

\* a schema was rejected by a table whose schema had evolved before and that
\* holds a committed version
C11_Witness ==
    /\ last.op = "evolveSchema" /\ last.err = "schema is not compatible"
    /\ currentSchema.Version = 2
    /\ commits > 0

\* C12: on a freshly initialised table, a successful commit of a transaction
\* that inserts one record with id 0 makes GetByID(1) return that record with
\* id 1, and GetVersionHistory then has length 2.
C12_FirstInsertGetsIDOne ==
    [][(/\ last'.op = "commit" /\ last'.ok
        /\ currentVersion = 0 /\ DOMAIN versions = {0} /\ DOMAIN files = {}
        /\ txs[last'.tx].pendingDeletes = <<>>
        /\ Len(txs[last'.tx].pendingWrites) = 1
        /\ txs[last'.tx].pendingWrites[1].ID = 0) =>
          /\ ~findByID(GetAll', 1).err
          /\ findByID(GetAll', 1).recs = {[txs[last'.tx].pendingWrites[1] EXCEPT !.ID = 1]}
          /\ Len(GetVersionHistory') = 2]_vars

\* the first commit of the table inserted one record with id 0
C12_Witness ==
    /\ last.op = "commit" /\ last.ok
    /\ commits = 1 /\ currentVersion = 1 /\ DOMAIN files = {PartFile(1)}
    /\ txs[last.tx].pendingDeletes = <<>>
    /\ Len(txs[last.tx].pendingWrites) = 1
    /\ txs[last.tx].pendingWrites[1].ID = 0

\* C13: a successful commit has appended to the change feed, when
\* CommitTransaction returns, one ChangeEvent per write and per delete of the
\* transaction, each tagged with the new version id: GetChangelog(v, v) for the
\* committed version v returns that many events.
C13_CommitFeedsChangelog ==
    [][(last'.op = "commit" /\ last'.ok) =>
          Len(GetChangelog(changeLog', currentVersion', currentVersion')) =
              Len(txs[last'.tx].pendingWrites) + Len(txs[last'.tx].pendingDeletes)]_vars

\* C14: a read that runs while Compact holds the table mutex returns the
\* records of the snapshot Compact read and rewrites, which is the table both
\* before and after the compaction, and a read that takes the shared lock does
\* not run meanwhile.
C14_ReadsSeeWholeStates ==
    [][/\ (last'.op \in UnlockedReads /\ inflight.active) =>
              ~result'.err /\ result'.recs = inflight.recs
       /\ last'.op = "getByID" => ~inflight.active]_vars

\* C15: after Close every transaction object is inactive: one that was active
\* when Close was called has empty pending buffers, the active set is empty,
\* and Close created no version, whether or not its metadata write succeeded.
C15_CloseRollsBackAll ==
    [][last'.op = "close" =>
          /\ \A h \in Handles :
                 /\ ~txs'[h].isActive
                 /\ txs[h].isActive =>
                        txs'[h].pendingWrites = <<>> /\ txs'[h].pendingDeletes = <<>>
          /\ DOMAIN transactions' = {}
          /\ versions' = versions
          /\ currentVersion' = currentVersion]_vars

\* the records written for a version: those of its snapshot file, none for a
\* version without one
snapshotOf(v) ==
    IF PartFile(v) \in DOMAIN files /\ files[PartFile(v)].valid
    THEN files[PartFile(v)].recs ELSE {}

\* C16: GetByTimestamp(ts) returns without error the snapshot of the version
\* with the greatest timestamp not after ts, the one of highest id among equal
\* timestamps, and no records without error when no version is that old.
C16_GetByTimestamp ==
    [][last'.op = "getByTimestamp" =>
          LET targets == timestampTargets(versions, last'.tx)
          IN /\ ~result'.err
             /\ result'.recs = IF targets = {} THEN {} ELSE snapshotOf(Max(targets))]_vars

\* C18: the id of the transaction BeginTransaction returns differs from the id
\* of every transaction active at that moment, and the call replaces no entry
\* of d.transactions.
C18_FreshTransactionID ==
    [][last'.op = "begin" =>
          /\ \A h \in Handles : txs[h].isActive => txs[h].id # txs'[last'.tx].id
          /\ txs'[last'.tx].id \notin DOMAIN transactions]_vars

\* the version index as a reader sees it while d.currentVersion is cur: every
\* parent pointer followed
versionIndex(vers, cur) ==
    [v \in DOMAIN vers |-> [vers[v] EXCEPT !.ParentID = ParentOf(vers[v], cur)]]

\* C17: after successful operations and a successful Close, a repository opened
\* on the same base path has the current version id, the version index, the
\* current schema and the GetAll records the closed one had.
C17_ReopenRestores ==
    [][(last'.op = "open" /\ last.op = "close" /\ last.ok /\ nFail = 0) =>
          /\ currentVersion' = currentVersion
          /\ versionIndex(versions', currentVersion') = versionIndex(versions, currentVersion)
          /\ currentSchema' = currentSchema
          /\ GetAll' = GetAll]_vars

\* C19: once Stop has succeeded on a stream, every Publish and Subscribe on it
\* returns an error and so does a further Stop; and no event is ever sent on a
\* closed channel, however Publish and Stop interleave.
C19_StoppedStreamRejects ==
    [][/\ (stream.stopped /\ last'.op \in {"publish", "publishing", "subscribe", "stop"}) =>
              ~last'.ok
       /\ ~stream'.panicked]_vars

\* C20: Publish sends an event only into free buffer space and counts it,
\* returns nil only after it sent every event, and returns the context's error
\* only when its ctx is cancelled, the event at hand not sent; when no Publish
\* is running, EventsPublished is the number of events sent.
C20_PublishBlocksOrCancels ==
    [][/\ (last'.op = "send" /\ ~stream.closed) =>
              /\ Len(stream.events) < StreamBuffer
              /\ stream'.events = Append(stream.events, last'.tx)
       /\ (last'.op = "publish" /\ last'.ok) =>
              pubs[last'.tx].pc = "count" /\ pubs[last'.tx].left = 1
       /\ (last'.op = "publish" /\ last'.err = "context canceled") =>
              pubs[last'.tx].done /\ stream'.events = stream.events /\ stream'.sent = stream.sent
       /\ writeLockFree(pubs') => stream'.EventsPublished = stream'.sent]_vars

\* a change of type on the allow-list
AllowedTypeChange(old, new) ==
    \/ old = new
    \/ <<old, new>> \in {<<"int", "float">>, <<"int", "string">>, <<"float", "string">>,
                         <<"date", "timestamp">>, <<"date", "string">>}

\* some field of new offends against the field of that name in cur, or is new to
\* cur and neither nullable nor defaulted
Offends(cur, new) ==
    \E i \in 1..Len(new.Fields) :
        LET f == new.Fields[i]
        IN \/ \E j \in 1..Len(cur.Fields) :
                  /\ cur.Fields[j].Name = f.Name
                  /\ \/ ~AllowedTypeChange(cur.Fields[j].Type, f.Type)
                     \/ cur.Fields[j].Nullable /\ ~f.Nullable
           \/ /\ \A j \in 1..Len(cur.Fields) : cur.Fields[j].Name # f.Name
              /\ ~f.Nullable /\ ~f.HasDefault

\* C21: ValidateSchemaCompatibility(newSchema) returns an error exactly when
\* some field present in both schemas changes type outside the allow-list or
\* goes from nullable to non-nullable, or a field new to newSchema is
\* non-nullable without default; a schema that drops fields is accepted.
C21_CompatibilityRule ==
    [][last'.op = "validateSchema" =>
          (~last'.ok <=> Offends(currentSchema, caller'.passed))]_vars

\* a schema that keeps "intensity" as a nullable string and drops every other
\* field was accepted by a table whose "intensity" had been a float
C21_Witness ==
    /\ last.op = "validateSchema" /\ last.ok
    /\ caller.passed.Fields = <<[Name |-> "intensity", Type |-> "string", Nullable |-> TRUE,
                                 HasDefault |-> FALSE]>>
    /\ currentSchema.Version = 3
    /\ HasField(currentSchema, "intensity")
    /\ FieldNamed(currentSchema, "intensity").Type = "float"

\* C22: no assignment to the Schema GetCurrentSchema returned (to a field of
\* its list, to its properties) and no assignment to the Schema object passed
\* to a successful EvolveSchema changes what GetCurrentSchema returns.
C22_SchemaIsolated ==
    [][last'.op \in {"mutateFields", "mutateProperties", "mutatePassed"} =>
          GetCurrentSchema' = GetCurrentSchema]_vars

\* C23: no two constraints of the engine share a name, whatever AddConstraint
\* and RemoveConstraint calls were made: AddConstraint with a name already
\* present returns an error and leaves the list as it was, with any other name
\* it appends the constraint with Enabled set.
C23_UniqueConstraintNames ==
    [][/\ \A i, j \in 1..Len(constraints') :
              constraints'[i].Name = constraints'[j].Name => i = j
       /\ \A c \in OfferedConstraints, mio \in MetaOutcomes :
              AddConstraint(c, mio) =>
                  IF \E i \in 1..Len(constraints) : constraints[i].Name = c.Name
                  THEN ~last'.ok /\ constraints' = constraints
                  ELSE constraints' = constraints \o <<[c EXCEPT !.Enabled = TRUE]>>]_vars

\* AddConstraint refused a name that is present in a list of two constraints
C23_Witness ==
    /\ last.op = "addConstraint" /\ last.err = "constraint already exists"
    /\ Len(constraints) = 2
    /\ constraints[1].Name = "described"
    /\ constraints[2].Name = "positive_duration"

\* the record breaks the rule the constraint states: a range on "duration" by a
\* duration outside 0..1440, not-null by a blank value in a named column, a check
\* with the known expression by a type outside its list
Violates(c, e) ==
    LET columns == {c.Columns[i] : i \in 1..Len(c.Columns)}
    IN CASE c.Type = "range" ->
                "duration" \in columns /\ (e.Duration < 0 \/ e.Duration > 1440)
         [] c.Type = "not_null" ->
                \/ "type" \in columns /\ e.Type = ""
                \/ "description" \in columns /\ e.Description = ""
         [] c.Type = "check" ->
                /\ c.Expression = "type IN ('cardio', 'strength', 'flexibility')"
                /\ e.Type \notin {"cardio", "strength", "flexibility"}
         [] OTHER -> FALSE

\* C24: ValidateConstraints(records) returns nil exactly when no enabled
\* constraint is violated by a record, else an error naming the first violated
\* constraint in list order; a disabled constraint and a check with an unknown
\* expression produce no error.
C24_FirstViolationNamed ==
    [][last'.op = "validateConstraints" =>
          LET bad == {i \in 1..Len(constraints) :
                         /\ constraints[i].Enabled
                         /\ \E j \in 1..Len(caller'.checked) :
                                Violates(constraints[i], caller'.checked[j])}
          IN /\ last'.ok <=> bad = {}
             /\ ~last'.ok => bad # {} /\ last'.err = constraints[Min(bad)].Name]_vars

\* the record satisfies the condition as the operators are defined: an unknown
\* field or operator is satisfied by nothing, greater-than only by an integer
\* field against an integer, like only by a string field that starts with a
\* string pattern
Satisfies(e, c) ==
    /\ c.Field \in {"id", "type", "duration"}
    /\ LET isString == c.Field = "type"
           number   == IF c.Field = "id" THEN e.ID ELSE e.Duration
           same     == IF isString THEN c.Value.type = "string" /\ c.Value.str = e.Type
                       ELSE c.Value.type = "int" /\ c.Value.val = number
       IN \/ c.Operator = "eq" /\ same
          \/ c.Operator = "ne" /\ ~same
          \/ /\ c.Operator = "gt"
             /\ ~isString /\ c.Value.type = "int"
             /\ number > c.Value.val
          \/ /\ c.Operator = "like"
             /\ isString /\ c.Value.type = "string"
             /\ \E rest \in 0..Len(e.Type) :
                    /\ Len(e.Type) = Len(c.Value.str) + rest
                    /\ \A i \in 1..Len(c.Value.str) : e.Type[i] = c.Value.str[i]

C26_PaginationClamps ==
    [][(last'.op = "queryWithFilter" /\ last'.err # "failed to read current data") =>
          LET n      == Len(result'.scanned)
              offset == IF caller'.filter.Offset = NilPtr THEN 0 ELSE caller'.filter.Offset.val
              limit  == IF caller'.filter.Limit = NilPtr THEN n ELSE caller'.filter.Limit.val
              upto   == IF offset + limit < n THEN offset + limit ELSE n
          IN /\ last'.ok
             /\ offset >= n => result'.list = <<>>
             /\ (0 <= offset /\ offset < n) =>
                    result'.list = [i \in 1..(upto - offset) |-> result'.scanned[offset + i]]]_vars

\* the elements of a batch that fail validation
Rejected(exercises) == {i \in 1..Len(exercises) : ~Validate(exercises[i])}

\* C27: InsertBatchWithOptions with SkipErrors set continues past the items that
\* fail, records every failed item in the error list of the result, and commits
\* the successful items as one transaction that creates exactly one new version;
\* on return SuccessCount + ErrorCount is ProcessedCount.
C27_SkipErrorsCommitsTheRest ==
    [][(caller'.job # caller.job /\ caller'.job.pc = "idle" /\ caller'.job.options.SkipErrors) =>
          LET job  == caller'.job
              r    == job.result
              kept == [pendingDeletes |-> <<>>,
                       pendingWrites  |-> SelectSeq(job.exercises, Validate)]
          IN /\ job.err = ""
             /\ r.SuccessCount + r.ErrorCount = r.ProcessedCount
             /\ \A i \in Rejected(job.exercises) :
                    \E k \in 1..Len(r.Errors) : r.Errors[k].Record = job.exercises[i].ID
             /\ r.ErrorCount >= Cardinality(Rejected(job.exercises))
             /\ currentVersion' = currentVersion + 1
             /\ DOMAIN versions' = DOMAIN versions \cup {currentVersion'}
             /\ GetAll'.recs = newExercises(GetAll.recs, kept)]_vars

\* C28: for the same sequence of Insert (with id 0), Update, Delete, GetByID and
\* GetAll calls the in-memory engine and the versioned engine return the same
\* outcomes: the same errors, the same records with the same ids.
C28_EnginesAgree == [][deltaAnswer' = caller'.answer]_vars

\* C29: in MemoryRepository the k-th record ever inserted, by Insert or by
\* InsertBatch, is stored under id k whatever id it carried; so the ids start
\* at 1, every stored record has its own, and none is handed out again after a
\* Delete.
C29_KthInsertGetsIdK ==
    [][LET given  == caller'.asked.exercises
           stored == caller'.memory.exercises
       IN /\ last'.op \in {"memory.Insert", "memory.InsertBatch"} =>
                 \A j \in 1..Len(given) :
                     LET k == caller.inserted + j
                     IN k \in DOMAIN stored /\ stored[k] = [given[j] EXCEPT !.ID = k]
          /\ \A id \in DOMAIN stored : id \in 1..caller'.inserted /\ stored[id].ID = id]_vars

\* the third record inserted carried id 1 and came after the Delete of id 2: it
\* is stored under 3
C29_Witness ==
    /\ last.op = "memory.Insert"
    /\ caller.asked.exercises[1].ID = 1
    /\ caller.inserted = 3
    /\ DOMAIN caller.memory.exercises = {1, 3}

\* C30: in MemoryRepository Update with an id that is not stored and Delete of
\* an id that is not stored return a not-found error and leave the stored
\* records as they are; Update of a stored id replaces that record and no
\* other, Delete of a stored id removes that record and no other.
C30_NotFoundChangesNothing ==
    [][LET old == caller.memory.exercises
           new == caller'.memory.exercises
           id  == caller'.asked.id
       IN /\ last'.op = "memory.Update" =>
                 IF id \in DOMAIN old
                 THEN /\ last'.ok /\ ~caller'.answer.err
                      /\ new = [old EXCEPT ![id] = caller'.asked.exercises[1]]
                 ELSE /\ ~last'.ok /\ caller'.answer.err
                      /\ last'.err = "exercise not found"
                      /\ new = old
          /\ last'.op = "memory.Delete" =>
                 IF id \in DOMAIN old
                 THEN /\ last'.ok /\ ~caller'.answer.err
                      /\ new = [i \in DOMAIN old \ {id} |-> old[i]]
                 ELSE /\ ~last'.ok /\ caller'.answer.err
                      /\ last'.err = "exercise not found"
                      /\ new = old]_vars

\* Update of an id that is not stored was refused while two records are stored
C30_Witness ==
    /\ last.op = "memory.Update" /\ ~last.ok
    /\ caller.asked.id \notin DOMAIN caller.memory.exercises
    /\ Cardinality(DOMAIN caller.memory.exercises) = 2

\* the ids of the records a sequence of writes carries
WrittenIDs(writes) == {writes[i].ID : i \in 1..Len(writes)}

\* the last record of a sequence of writes that carries this id
LastWritten(writes, id) ==
    writes[Max({i \in 1..Len(writes) : writes[i].ID = id})]

\* C31: within one commit all pending deletes are applied before all pending
\* writes: a transaction that both deletes id X and writes a record with id X,
\* in either order of submission, leaves the record with id X in the committed
\* snapshot with the written value.
C31_DeletesBeforeWrites ==
    [][(last'.op = "commit" /\ last'.ok) =>
          LET t == txs[last'.tx]
          IN \A x \in (Range(t.pendingDeletes) \cap WrittenIDs(t.pendingWrites)) \ {0} :
                 {e \in GetAll'.recs : e.ID = x} = {LastWritten(t.pendingWrites, x)}]_vars

\* the id the i-th of a sequence of writes is stored under when m is the
\* greatest id of the snapshot: its own, or m plus its rank among the writes
\* with id 0
StoredUnder(writes, i, m) ==
    IF writes[i].ID # 0 THEN writes[i].ID
    ELSE m + Cardinality({j \in 1..i : writes[j].ID = 0})

\* C32: in a commit the pending writes with id 0 receive the ids m+1, m+2, ...
\* in submission order, where m is the greatest id in the snapshot read at
\* commit time, 0 for an empty one; the writes with another id keep it.
C32_FreshIDsInOrder ==
    [][(last'.op = "commit" /\ last'.ok) =>
          LET t      == txs[last'.tx]
              writes == t.pendingWrites
              m      == Max({e.ID : e \in GetAll.recs} \cup {0})
              ids    == {StoredUnder(writes, i, m) : i \in 1..Len(writes)}
              final  == {i \in 1..Len(writes) :
                           \A j \in 1..Len(writes) :
                               StoredUnder(writes, j, m) = StoredUnder(writes, i, m) => j <= i}
          IN GetAll'.recs =
                 {[writes[i] EXCEPT !.ID = StoredUnder(writes, i, m)] : i \in final}
                 \cup {e \in GetAll.recs : e.ID \notin ids /\ e.ID \notin Range(t.pendingDeletes)}]_vars

\* a commit of two writes with id 0 on a snapshot whose greatest id is 1 stored
\* them under 2 and 3
C32_Witness ==
    /\ last.op = "commit" /\ last.ok
    /\ Len(txs[last.tx].pendingWrites) = 2
    /\ \A i \in 1..2 : txs[last.tx].pendingWrites[i].ID = 0
    /\ {e.ID : e \in GetAll.recs} = {1, 2, 3}

\* C36: in one committed transaction every pending write yields its own record:
\* an id assigned to a write with id 0 is the id of no other record written in
\* the transaction, so a commit of k writes with pairwise different ids other
\* than 0 and j writes with id 0 adds or replaces k + j records.
C36_EveryWriteItsOwnRecord ==
    [][(last'.op = "commit" /\ last'.ok) =>
          LET writes == txs[last'.tx].pendingWrites
              given  == {i \in 1..Len(writes) : writes[i].ID # 0}
          IN (\A i, j \in given : writes[i].ID = writes[j].ID => i = j) =>
                 \E put \in [1..Len(writes) -> {e.ID : e \in GetAll'.recs}] :
                     /\ \A i, j \in 1..Len(writes) : put[i] = put[j] => i = j
                     /\ \A i \in 1..Len(writes) :
                            /\ writes[i].ID # 0 => put[i] = writes[i].ID
                            /\ [writes[i] EXCEPT !.ID = put[i]] \in GetAll'.recs]_vars

\* C33: in every reachable state the conflict list of every transaction is
\* empty, so no commit is rejected for conflicts: two transactions begun at the
\* same read version both commit, the versions they create are consecutive, and
\* the second is applied on top of the snapshot the first wrote, whose records
\* remain where the second does not touch them.
C33_NoConflictEverBlocks ==
    [][/\ \A h \in 1..Len(txs') : txs'[h].conflicts = <<>>
       /\ last'.op = "commit" =>
              LET t       == txs[last'.tx]
                  m       == Max({e.ID : e \in GetAll.recs} \cup {0})
                  touched == Range(t.pendingDeletes) \cup
                             {StoredUnder(t.pendingWrites, i, m) : i \in 1..Len(t.pendingWrites)}
              IN /\ last'.ok = t.isActive
                 /\ last'.ok =>
                        /\ currentVersion' = currentVersion + 1
                        /\ \A e \in GetAll.recs : e.ID \notin touched => e \in GetAll'.recs]_vars

\* two transactions begun at version 0 have both committed a write, and the
\* record of the first is in the snapshot of the second
C33_Witness ==
    /\ Len(txs) = 2
    /\ \A h \in 1..2 : /\ txs[h].readVersion = 0 /\ ~txs[h].isActive
                       /\ Len(txs[h].pendingWrites) = 1
    /\ currentVersion = 2
    /\ last.op = "commit" /\ last.ok
    /\ Cardinality(GetAll.recs) = 2

\* C34: CreateVersion, Compact and OptimizeTable leave the visible records as
\* they are: GetAll after a successful call returns the records GetAll returned
\* before it, and the current version id has advanced by exactly 1.
C34_RewritesKeepRecords ==
    [][(last'.op \in {"createVersion", "compact", "optimize"} /\ last'.ok) =>
          /\ GetAll' = GetAll
          /\ ~GetAll'.err
          /\ currentVersion' = currentVersion + 1]_vars

\* a compaction of a table that holds a record has succeeded
C34_Witness ==
    /\ last.op = "compact" /\ last.ok
    /\ currentVersion = 2
    /\ GetAll.recs # {}

\* C35: if Compact or OptimizeTable returns an error because the write of the
\* new snapshot file or of the metadata file fails, the current version is the
\* one before the call and GetAll returns the records it returned before.
C35_FailedRewriteChangesNothing ==
    [][(last'.op \in {"compact", "optimize"} /\ ~last'.ok
        /\ last'.err \in {"failed to save data", "failed to save metadata"}) =>
          /\ currentVersion' = currentVersion
          /\ GetAll' = GetAll]_vars

\* C39: after every successful version-creating operation (CommitTransaction,
\* CreateVersion, EvolveSchema, Compact, OptimizeTable) the CurrentVersion of
\* the metadata GetTableMetadata returns is the repository's current version id.
C39_MetadataFollowsVersion ==
    [][(last'.ok /\ last'.op \in {"commit", "createVersion", "evolveSchema", "compact", "optimize"}) =>
          GetTableMetadata'.CurrentVersion = currentVersion']_vars

\* C37: however Insert, Update and Delete on a transaction interleave with
\* CommitTransaction on it from another goroutine, every operation that returned
\* success (every operation in the transaction's buffers) is applied in the
\* committed snapshot, and an operation that returns an error is in no buffer.
C37_NoSuccessfulOperationLost ==
    [][/\ (caller.commit # NoCommit /\ caller'.commit = NoCommit /\ last'.ok) =>
             GetAll'.recs = newExercises(GetAll.recs, txs'[caller.commit.tx])
       /\ (last'.op \in {"insert", "update", "delete"} /\ ~last'.ok) => txs' = txs]_vars

\* C38: every GetByTimestamp call eventually returns, also when a mutating
\* operation asks for the exclusive table lock while the call is in progress.
C38_GetByTimestampReturns ==
    (caller.lock.pc = "getByVersion") ~> (caller.lock.pc = "idle")

\* C40: Stop on an active stream eventually returns, also when a Publish call
\* is blocked on the stream's full buffer and no subscriber drains it.
C40_StopReturns == caller.stopping ~> ~caller.stopping

====
